---- MODULE Spec2Model ----
(***************************************************************************)
(* Model of the prompt-program interpreter: the evaluator of src/src/eval.rs *)
(* (one task per prompt invocation, tokio::spawn fan-out, join_all), the    *)
(* top-level driver of src/src/lib.rs, the regex-literal rule of            *)
(* src/src/parser.rs and the session files the Chat Service writes          *)
(* (src/src/chat.rs, src/src/completion.rs).                                *)
(*                                                                         *)
(* Spec is the run of one prompt file; SpecRegex and SpecCommand apply one  *)
(* function (the regex rule, the result of a shell command) to every        *)
(* argument of a bounded set.                                               *)
(*                                                                         *)
(* Text is a sequence of tokens (short strings); ":" and " " are tokens of  *)
(* their own so that label stripping and trimming are computed.            *)
(***************************************************************************)
EXTENDS Integers, Sequences, FiniteSets, TLC

\* Bound on the number of prompt invocations (tasks) of one run.
MaxTasks == 5

Range(s) == {s[i] : i \in 1..Len(s)}
Min(S) == CHOOSE x \in S : \A y \in S : x <= y

\* ------------------------------------------------------------------ text

\* str::trim_start on a token sequence: drop the leading blanks.
RECURSIVE trim_start(_)
trim_start(s) ==
    IF s # <<>> /\ Head(s) = " " THEN trim_start(Tail(s)) ELSE s

\* str::trim_end on a token sequence.
RECURSIVE trim_end(_)
trim_end(s) ==
    IF s # <<>> /\ s[Len(s)] = " " THEN trim_end(SubSeq(s, 1, Len(s) - 1)) ELSE s

\* str::trim
trim(s) == trim_end(trim_start(s))

\* ------------------------------------------------------------------- ast

\* ast.rs PipeSubject; NoSubject fills the field where the AST has none.
CommandSubject(c) == [kind |-> "Command", text |-> c]
VariableSubject(v) == [kind |-> "Variable", text |-> v]
NoSubject == [kind |-> "None", text |-> ""]

\* ast.rs Regex, as far as the evaluator uses it: a literal token searched
\* anywhere in the text (".*" matches every text) and the number of capture
\* groups; group 1, when there is one, captures the matched token. `names`
\* gives the name of each group ("" for a positional one), `unset` the groups
\* that take no part in a match (an optional group that matched nothing).
Regex(pat, groups) ==
    [pat |-> pat, groups |-> groups, names |-> [i \in 1..groups |-> ""], unset |-> {}]
RegexNamed(pat, names, unset) ==
    [pat |-> pat, groups |-> Len(names), names |-> names, unset |-> unset]

\* Regex::as_str, the literal a Regex of this model was compiled from: group
\* 1 wraps the whole pattern and group 2 is nested in it, as in
\* `((?i)yes[^a-z]*(.+))` and `(?i:yes[^a-z]*(?P<FOOBAR>.+))` of the tests of
\* eval.rs; a pattern whose group 1 is optional reads `(?:no(x)?)`.
regex_group(r, i, body) ==
    <<"(">> \o (IF r.names[i] # "" THEN <<"?P", r.names[i]>> ELSE <<>>)
            \o body \o <<")">> \o (IF i \in r.unset THEN <<"?">> ELSE <<>>)
regex_literal(r) ==
    IF r.groups = 0 THEN <<"(", "?:", r.pat, ")">>
    ELSE IF 1 \in r.unset
    THEN <<"(", "?:", r.pat>> \o regex_group(r, 1, <<"x">>) \o <<")">>
    ELSE regex_group(r, 1, <<r.pat>> \o (IF r.groups >= 2
                                         THEN regex_group(r, 2, <<".*">>)
                                         ELSE <<>>))

\* ast.rs MatchAction
ActionPipe(subject, names) == [kind |-> "Pipe", subject |-> subject, names |-> names]
ActionCommand(c) == [kind |-> "Command", subject |-> CommandSubject(c), names |-> <<>>]
ActionPromptCall(names) == [kind |-> "PromptCall", subject |-> NoSubject, names |-> names]

\* ast.rs MatchCase
MatchCase(regex, action) == [regex |-> regex, action |-> action]

\* ast.rs Statement
MatchStatement(variable, cases) ==
    [kind |-> "MatchStatement", variable |-> variable, cases |-> cases,
     subject |-> NoSubject, names |-> <<>>]
PipeStatement(subject, names) ==
    [kind |-> "PipeStatement", variable |-> "", cases |-> <<>>,
     subject |-> subject, names |-> names]
Command(c) ==
    [kind |-> "Command", variable |-> "", cases |-> <<>>,
     subject |-> CommandSubject(c), names |-> <<>>]

\* ast.rs PromptOptions, as the YAML header decodes: description, direction
\* and history are "None" when the header does not give them, history is
\* "true" or "false" when it does; eager is false when it is not given.
PromptOptions(description, direction, eager, history) ==
    [description |-> description, direction |-> direction, eager |-> eager,
     history |-> history]

\* ast.rs Prompt as the prompt rule of the grammar builds it: is_main false.
PromptWith(name, options, statements) ==
    [name |-> name, is_main |-> FALSE, eager |-> options.eager,
     description |-> options.description, direction |-> options.direction,
     history |-> options.history, statements |-> statements]

\* A prompt whose header gives eager or nothing.
Prompt(name, eager, statements) ==
    PromptWith(name, PromptOptions("None", "None", eager, "None"), statements)

\* Variant of parse_program that flags every prompt block as main.
parse_program_flag_all(prompts) ==
    [i \in 1..Len(prompts) |-> [prompts[i] EXCEPT !.is_main = TRUE]]

\* parser.rs program rule, after the prompts are collected: the first prompt
\* is flagged is_main.
parse_program(prompts) ==
    [i \in 1..Len(prompts) |-> [prompts[i] EXCEPT !.is_main = (i = 1)]]

\* -------------------------------------------------------------- programs

\* Fan-out with a nested call: a pipes to b and c, b pipes to c.
ProgFanout == parse_program(<<
    PromptWith("a", PromptOptions("describe a", "direct a", FALSE, "true"),
               << PipeStatement(VariableSubject("AI"), <<"b", "c">>),
                  Command("tail") >>),
    PromptWith("b", PromptOptions("describe b", "None", FALSE, "false"),
               << PipeStatement(CommandSubject("gen"), <<"c">>) >>),
    Prompt("c", FALSE, << Command("leaf") >>) >>)

\* Match statements: overlapping cases, a case list that may match nothing.
ProgMatch == parse_program(<<
    Prompt("a", TRUE, <<
        MatchStatement("AI", <<
            MatchCase(Regex("yes", 1), ActionPromptCall(<<"b", "c">>)),
            MatchCase(Regex(".*", 0), ActionCommand("log")) >>),
        MatchStatement("USER", <<
            MatchCase(Regex("yes", 1), ActionCommand("never")),
            MatchCase(Regex("hi", 0), ActionPipe(CommandSubject("gen"), <<"b">>)),
            MatchCase(Regex("hi", 1), ActionCommand("late")) >>) >>),
    Prompt("b", FALSE, <<>>),
    Prompt("c", FALSE, <<>>) >>)

\* The animal-house fixture of parser.rs (tests::parse_animal_house), with one
\* toddler: every prompt pipes $AI to the other two.
ProgAnimalHouse == parse_program(<<
    Prompt("mom", TRUE, << PipeStatement(VariableSubject("AI"), <<"dad", "toddler_one">>) >>),
    Prompt("dad", FALSE, << PipeStatement(VariableSubject("AI"), <<"mom", "toddler_one">>) >>),
    Prompt("toddler_one", FALSE, << PipeStatement(VariableSubject("AI"), <<"mom", "dad">>) >>) >>)

\* A call that names a prompt the program does not have, in a nested call.
ProgMissing == parse_program(<<
    Prompt("a", TRUE, << PipeStatement(VariableSubject("USER"), <<"b">>),
                         Command("tail") >>),
    Prompt("b", FALSE, << PipeStatement(VariableSubject("AI"), <<"c", "zed">>) >>),
    Prompt("c", FALSE, <<>>) >>)

\* Variables other than AI and USER, as a pipe subject and as a match variable.
ProgUndeclared == parse_program(<<
    Prompt("a", TRUE, << PipeStatement(VariableSubject("BAR"), <<"b">>),
                         Command("tail"),
                         MatchStatement("FOO", <<
                            MatchCase(Regex(".*", 0), ActionCommand("log")) >>),
                         Command("after") >>),
    Prompt("b", FALSE, <<>>) >>)

\* The grammar accepts a source with no prompt block.
ProgEmpty == parse_program(<<>>)

\* Capture groups, after the two tests of eval.rs: a command run with a named
\* and a positional group, a prompt call on a regex without a group
\* (`(?i:^yes) => go_ahead` of tests::parse_match_statement), and optional
\* groups that take no part in the match.
ProgCaptures == parse_program(<<
    Prompt("a", TRUE, << PipeStatement(VariableSubject("AI"), <<"p", "q">>) >>),
    Prompt("p", FALSE, <<
        MatchStatement("AI", <<
            MatchCase(RegexNamed("yes", <<"FOOBAR", "">>, {}), ActionCommand("echo")),
            MatchCase(Regex("no", 0), ActionPromptCall(<<"b">>)) >>) >>),
    Prompt("q", FALSE, <<
        MatchStatement("AI", <<
            MatchCase(RegexNamed("yes", <<"", "BYE">>, {2}),
                      ActionPipe(CommandSubject("bye"), <<"b">>)),
            MatchCase(RegexNamed("no", <<"">>, {1}), ActionPromptCall(<<"b">>)) >>) >>),
    Prompt("b", FALSE, <<>>) >>)

\* Two prompt blocks of one name, which the grammar accepts.
ProgDuplicate == parse_program(<<
    Prompt("a", TRUE, << PipeStatement(VariableSubject("AI"), <<"b">>) >>),
    Prompt("b", FALSE, << Command("first") >>),
    Prompt("b", FALSE, << Command("second") >>) >>)

Programs ==
    {ProgFanout, ProgMatch, ProgAnimalHouse, ProgMissing, ProgUndeclared, ProgEmpty,
     ProgCaptures, ProgDuplicate}

\* ------------------------------------------------------- evaluator values

\* eval.rs EvaluateError and Result<_, EvaluateError>; a panic of the task is
\* what tokio reports to the JoinHandle, `err` then names the panicking line.
NoResult == [tag |-> "None", err |-> "", val |-> <<>>]
Ok(val) == [tag |-> "Ok", err |-> "", val |-> val]
Err(e, val) == [tag |-> "Err", err |-> e, val |-> val]
Panic(site) == [tag |-> "Panic", err |-> site, val |-> <<>>]

\* ai crate ChatCommand with its CompletionOptions, as eval.rs fills them;
\* an Option is "None" or its value, `append` says whether it is Some.
NoCommand == [name |-> "None"]

\* eval.rs:68 and 252, history.map(|h| !h)
no_context(history) ==
    IF history = "None" THEN "None" ELSE IF history = "true" THEN "false" ELSE "true"

\* eval.rs:65-78, the request of the main prompt.
main_command(main) ==
    [ai_responds_first |-> main.eager,
     append |-> [some |-> FALSE, text |-> <<>>],
     no_context |-> no_context(main.history),
     name |-> main.name, once |-> TRUE, prefix_ai |-> main.name,
     prefix_user |-> "None", stream |-> FALSE, quiet |-> TRUE,
     system |-> main.description, direction |-> main.direction]

\* Variant of sub_command that leaves the options of the called prompt out.
sub_command_default_options(prompt, append, prefix_user) ==
    [ai_responds_first |-> FALSE,
     append |-> [some |-> TRUE, text |-> append],
     no_context |-> "None",
     name |-> prompt.name, once |-> TRUE, prefix_ai |-> prompt.name,
     prefix_user |-> prefix_user, stream |-> FALSE, quiet |-> TRUE,
     system |-> "None", direction |-> "None"]

\* eval.rs:243-263, the request of a sub-invocation of `prompt`.
sub_command(prompt, append, prefix_user) ==
    [ai_responds_first |-> FALSE,
     append |-> [some |-> TRUE, text |-> append],
     no_context |-> no_context(prompt.history),
     name |-> prompt.name, once |-> TRUE, prefix_ai |-> prompt.name,
     prefix_user |-> prefix_user, stream |-> FALSE, quiet |-> TRUE,
     system |-> prompt.description, direction |-> prompt.direction]

\* eval.rs EvaluateVars
EvaluateVars(ai, user) == [ai |-> ai, user |-> user]

\* Chat Service messages (role, content) and the results `command.run` can
\* give eval.rs:96: an error, the empty list, or a list of messages.
Message(role, content) == [role |-> role, content |-> content]

ChatResults ==
    { [ok |-> FALSE, msgs |-> <<>>],
      [ok |-> TRUE, msgs |-> <<>>],
      [ok |-> TRUE, msgs |-> << Message("User", <<"USER", ":", " ", "hi">>),
                                Message("Ai", <<"AI", ":", " ", "yes">>) >>],
      [ok |-> TRUE, msgs |-> << Message("Ai", <<"no">>) >>],
      [ok |-> TRUE, msgs |-> << Message("User", <<"hi">>) >>] }

\* What process.output() can give eval.rs:309.
ProcessOutputs ==
    { [status |-> 0, stdout |-> <<"out", " ">>, stderr |-> <<>>],
      [status |-> 1, stdout |-> <<"out", " ">>, stderr |-> <<" ">>],
      [status |-> 1, stdout |-> <<>>, stderr |-> <<"oops", " ">>],
      [status |-> 0, stdout |-> <<"out">>, stderr |-> <<"oops">>] }

\* Variant of evaluate_command that goes by the exit status.
evaluate_command_by_status(output) ==
    IF output.status # 0 THEN Err("Command", trim(output.stderr))
    ELSE Ok(trim(output.stdout))

\* eval.rs:309-316, the result of a finished shell command.
evaluate_command(output) ==
    LET err == trim(output.stderr)
    IN  IF Len(err) > 0 THEN Err("Command", err) ELSE Ok(trim(output.stdout))

\* eval.rs:107-109, content.split_once(':') and trim_start of what follows.
strip_label(content) ==
    IF \E i \in 1..Len(content) : content[i] = ":"
    THEN LET i == CHOOSE k \in 1..Len(content) :
                      content[k] = ":" /\ \A j \in 1..(k - 1) : content[j] # ":"
         IN  trim_start(SubSeq(content, i + 1, Len(content)))
    ELSE content

\* eval.rs:105-106, result.iter().rev().find(role): index of the most recent
\* message of the role, 0 when there is none.
find_last(msgs, role) ==
    IF \E i \in 1..Len(msgs) : msgs[i].role = role
    THEN CHOOSE i \in 1..Len(msgs) :
            msgs[i].role = role /\ \A j \in (i + 1)..Len(msgs) : msgs[j].role # role
    ELSE 0

\* eval.rs:102-120, the EvaluateVars of a message list that holds an AI
\* message: the latest message of each role with its label stripped, the
\* empty text for USER when there is no USER message.
evaluate_state(msgs) ==
    LET ai == find_last(msgs, "Ai")
        user == find_last(msgs, "User")
    IN  EvaluateVars(strip_label(msgs[ai].content),
                     IF user = 0 THEN <<>> ELSE strip_label(msgs[user].content))

\* regex crate: Regex::captures(text) is Some.
is_match(regex, text) == regex.pat = ".*" \/ regex.pat \in Range(text)

\* regex crate: the text of capture group 1 of a match.
capture_1(regex, text) == IF regex.pat = ".*" THEN text ELSE <<regex.pat>>

\* regex crate: the text of capture group i of a match; group 0 is the whole
\* match, group 1 wraps it and group 2 holds what follows the pattern.
capture(regex, text, i) ==
    IF i <= 1 THEN capture_1(regex, text)
    ELSE IF regex.pat = ".*" THEN <<>>
    ELSE LET k == Min({j \in 1..Len(text) : text[j] = regex.pat})
         IN  SubSeq(text, k + 1, Len(text))

\* eval.rs:275-276, the captures handed to evaluate_command: None for a
\* statement, Some for the action of a match case.
NoCaptures == [some |-> FALSE, regex |-> Regex(".*", 0), text |-> <<>>]
SomeCaptures(regex, text) == [some |-> TRUE, regex |-> regex, text |-> text]

\* The environment a command is given: AI and USER, then `named`, the
\* groups exported by name, each holding its capture.
command_env(vars, captures, named) ==
    [n \in {"AI", "USER"} \cup {captures.regex.names[i] : i \in named} |->
        IF \E i \in named : captures.regex.names[i] = n
        THEN capture(captures.regex, captures.text,
                     CHOOSE i \in named : captures.regex.names[i] = n)
        ELSE IF n = "AI" THEN vars.ai ELSE vars.user]

\* Variant of command_process that exports no capture group by name.
command_process_no_names(vars, c, captures) ==
    [panic |-> "",
     env |-> command_env(vars, captures, {}),
     args |-> <<<<"-c">>, <<c>>>>]

\* eval.rs:278-307, the process evaluate_command builds: `sh -c c` with AI
\* and USER in the environment; with captures, every named group is set in
\* the environment under its name (line 300) and every group, 0 included, is
\* added as a further argument of sh (line 302). Indexing a group that took
\* no part in the match panics; `panic` then names the line.
command_process(vars, c, captures) ==
    LET groups == IF captures.some THEN captures.regex.groups ELSE 0
        names == captures.regex.names
        unset == captures.regex.unset \cap 1..groups
        named == {i \in 1..groups : names[i] # ""}
    IN  [panic |-> IF unset = {} THEN ""
                   ELSE IF Min(unset) \in named THEN "eval.rs:300" ELSE "eval.rs:302",
         env |-> command_env(vars, captures, named),
         args |-> <<<<"-c">>, <<c>>>> \o
                  (IF captures.some
                   THEN [i \in 1..(groups + 1) |->
                            capture(captures.regex, captures.text, i - 1)]
                   ELSE <<>>)]

\* Variant of first_match that lets the last matching case win.
first_match_last_wins(cases, text) ==
    IF \E i \in 1..Len(cases) : is_match(cases[i].regex, text)
    THEN CHOOSE i \in 1..Len(cases) :
            is_match(cases[i].regex, text)
            /\ \A j \in (i + 1)..Len(cases) : ~is_match(cases[j].regex, text)
    ELSE 0

\* eval.rs:156-157, the first case whose regex matches, 0 when none does.
first_match(cases, text) ==
    IF \E i \in 1..Len(cases) : is_match(cases[i].regex, text)
    THEN CHOOSE i \in 1..Len(cases) :
            is_match(cases[i].regex, text)
            /\ \A j \in 1..(i - 1) : ~is_match(cases[j].regex, text)
    ELSE 0

\* ---------------------------------------------------------------- parser

\* Bound on the length of the texts the regex rule is applied to on its own.
MaxLiteralLen == 6

\* The least position q >= p of s that holds a character of `stop`,
\* Len(s) + 1 when there is none: where a greedy [^stop]* started at p ends.
RECURSIVE skip(_, _, _)
skip(s, p, stop) ==
    IF p > Len(s) \/ s[p] \in stop THEN p ELSE skip(s, p + 1, stop)

\* What a rule of the grammar gives at a position: failure, or the position
\* after what it consumed and the value of its action block.
NoMatch == [ok |-> FALSE, next |-> 0, text |-> <<>>]
Matched(next, text) == [ok |-> TRUE, next |-> next, text |-> text]

\* parser.rs:20-24, rule regex_nested at position p of s. First alternative:
\* "(" a run without parentheses, a nested regex_nested, a run without
\* parentheses, ")". Second alternative, tried when the first fails: "(" a
\* run without ")" and ")". The choice is ordered and the runs are greedy.
RECURSIVE regex_nested(_, _)
regex_nested(s, p) ==
    IF p > Len(s) \/ s[p] # "(" THEN NoMatch
    ELSE LET q == skip(s, p + 1, {"(", ")"})
             n == regex_nested(s, q)
             r == IF n.ok THEN skip(s, n.next, {"(", ")"}) ELSE 0
             c == skip(s, p + 1, {")"})
         IN  IF n.ok /\ r <= Len(s) /\ s[r] = ")"
             THEN Matched(r + 1, <<"(">> \o SubSeq(s, p + 1, q - 1) \o n.text
                                   \o SubSeq(s, n.next, r - 1) \o <<")">>)
             ELSE IF c <= Len(s)
                  THEN Matched(c + 1, <<"(">> \o SubSeq(s, p + 1, c - 1) \o <<")">>)
                  ELSE NoMatch

\* The number of "(" less the number of ")" among the first i characters.
RECURSIVE Depth(_, _)
Depth(s, i) ==
    IF i = 0 THEN 0
    ELSE Depth(s, i - 1) + (IF s[i] = "(" THEN 1 ELSE IF s[i] = ")" THEN -1 ELSE 0)

\* parser.rs:16, Regex::new(&re): the regex engine compiles a text whose
\* parentheses are balanced and refuses any other.
regex_new(text) ==
    /\ Depth(text, Len(text)) = 0
    /\ \A i \in 1..Len(text) : Depth(text, i) >= 0

\* parser.rs:14-18, rule regex at the start of s: a parse error when
\* regex_nested fails; its action block compiles the text and unwraps, which
\* panics inside the parser when the engine refuses the text.
regex_rule(s) ==
    LET m == regex_nested(s, 1)
    IN  IF ~m.ok THEN Err("ParseError", <<>>)
        ELSE IF ~regex_new(m.text) THEN Panic("parser.rs:16")
        ELSE Ok(m.text)

\* Bound on the length, in tokens, of the action texts of a match case.
MaxActionLen == 5

\* The tokens of an action text: a command literal "cmd", a variable "$v",
\* the arrow, a prompt name, the comma; white space (rule _) is skipped
\* between them.
ActionTokens == {"cmd", "$v", "->", "n", ","}

\* What an action rule gives at a position: failure, or the position after
\* what it consumed and the value built.
NoAction == [ok |-> FALSE, next |-> 0, val |-> <<>>]
Parsed(next, val) == [ok |-> TRUE, next |-> next, val |-> val]

\* parser.rs:26-29, rule command, and parser.rs:9-12, rule variable.
command_rule(s, p) ==
    IF p <= Len(s) /\ s[p] = "cmd" THEN Parsed(p + 1, "cmd") ELSE NoAction
variable_rule(s, p) ==
    IF p <= Len(s) /\ s[p] = "$v" THEN Parsed(p + 1, "v") ELSE NoAction

\* parser.rs:58-64, rule prompt_call: prompt_name() ++ ",", one name and
\* then every "," that a name follows.
RECURSIVE prompt_names(_, _)
prompt_names(s, p) ==
    IF p + 1 <= Len(s) /\ s[p] = "," /\ s[p + 1] = "n"
    THEN LET more == prompt_names(s, p + 2)
         IN  Parsed(more.next, <<s[p + 1]>> \o more.val)
    ELSE Parsed(p, <<>>)
prompt_call_rule(s, p) ==
    IF p <= Len(s) /\ s[p] = "n"
    THEN LET more == prompt_names(s, p + 1)
         IN  Parsed(more.next, <<s[p]>> \o more.val)
    ELSE NoAction

\* parser.rs:50-56, rule pipe_statement: a command, or else a variable,
\* then "->" and a prompt call.
pipe_statement_rule(s, p) ==
    LET subject == IF command_rule(s, p).ok
                   THEN Parsed(p + 1, CommandSubject(command_rule(s, p).val))
                   ELSE IF variable_rule(s, p).ok
                   THEN Parsed(p + 1, VariableSubject(variable_rule(s, p).val))
                   ELSE NoAction
        call == prompt_call_rule(s, p + 2)
    IN  IF subject.ok /\ p + 1 <= Len(s) /\ s[p + 1] = "->" /\ call.ok
        THEN Parsed(call.next, ActionPipe(subject.val, call.val))
        ELSE NoAction

\* Variant of match_action that tries the command literal first.
match_action_command_first(s) ==
    IF command_rule(s, 1).ok
    THEN Parsed(2, ActionCommand(command_rule(s, 1).val))
    ELSE IF pipe_statement_rule(s, 1).ok THEN pipe_statement_rule(s, 1)
    ELSE IF prompt_call_rule(s, 1).ok
    THEN Parsed(prompt_call_rule(s, 1).next, ActionPromptCall(prompt_call_rule(s, 1).val))
    ELSE NoAction

\* parser.rs:39-48, the action of rule match_case after "=>": the ordered
\* choice of a pipe statement, a command and a prompt call.
match_action(s) ==
    IF pipe_statement_rule(s, 1).ok THEN pipe_statement_rule(s, 1)
    ELSE IF command_rule(s, 1).ok
    THEN Parsed(2, ActionCommand(command_rule(s, 1).val))
    ELSE IF prompt_call_rule(s, 1).ok
    THEN Parsed(prompt_call_rule(s, 1).next, ActionPromptCall(prompt_call_rule(s, 1).val))
    ELSE NoAction

\* --------------------------------------------------------------- sources

RECURSIVE Flatten(_)
Flatten(seqs) == IF seqs = <<>> THEN <<>> ELSE Head(seqs) \o Flatten(Tail(seqs))

\* The regex literals of a source text, in source order.
SourceLiterals(prompts) ==
    Flatten([i \in 1..Len(prompts) |->
        Flatten([k \in 1..Len(prompts[i].statements) |->
            [c \in 1..Len(prompts[i].statements[k].cases) |->
                regex_literal(prompts[i].statements[k].cases[c].regex)]])])

\* A source text, by what the grammar sees in it: the prompt blocks as the
\* prompt rule builds them, the regex literals of its match cases, whether
\* the rest of the text follows the grammar and whether every YAML header
\* decodes.
SourceOf(prog) ==
    [prompts |-> prog, literals |-> SourceLiterals(prog),
     grammar_ok |-> TRUE, yaml_ok |-> TRUE]

\* Sources that do not parse: text the grammar does not derive, a YAML
\* header serde_yaml refuses, and regex literals missing a closing
\* parenthesis (`(foo` and `((foo)`).
BadSources ==
    { [SourceOf(ProgMatch) EXCEPT !.grammar_ok = FALSE],
      [SourceOf(ProgFanout) EXCEPT !.yaml_ok = FALSE],
      [SourceOf(ProgMatch) EXCEPT !.literals = <<<<"(", "yes", ")">>, <<"(", "foo">>>>],
      [SourceOf(ProgMatch) EXCEPT !.literals = <<<<"(", "(", "foo", ")">>>>] }

Sources == {SourceOf(prog) : prog \in Programs} \cup BadSources

\* Variant of parse_source for a loader that goes on with what it could
\* parse: the prompt blocks found are evaluated whatever failed.
parse_source_lenient(src) == Ok(parse_program(src.prompts))

\* parser.rs:109-120 as called at lib.rs:60, parse::program(&file): the
\* regex rule runs on every literal in source order (a parse error or a panic
\* at the first one that fails), text outside the grammar is a parse error,
\* a YAML header that does not decode makes the action block return the
\* serde_yaml error, and otherwise the Program is built.
parse_source(src) ==
    LET bad == {i \in 1..Len(src.literals) : regex_rule(src.literals[i]).tag # "Ok"}
    IN  IF bad # {} THEN regex_rule(src.literals[Min(bad)])
        ELSE IF ~src.grammar_ok THEN Err("ParseError", <<>>)
        ELSE IF ~src.yaml_ok THEN Err("serde_yaml::Error", <<>>)
        ELSE Ok(parse_program(src.prompts))

\* lib.rs:60, the result of parse::program for each source a run can start
\* from: parsing is a function of the text alone, so the driver's parse is a
\* look-up of this table.
parsed == [src \in Sources |-> parse_source(src)]

\* ----------------------------------------------------------------- state

VARIABLES
    source,     \* the prompt file read at lib.rs:57
    fn_in,      \* the argument of the function a function specification applies
    fn_out,     \* the value the function gave, NoResult before it is applied
    program,    \* the parsed Program (ast.rs), fixed for the run
    watch,      \* PromptArgs.watch: "none", "valid" (a prompt's name), "invalid"
    tasks,      \* the tokio tasks: task 1 runs eval, the others sub-invocations
    writers,    \* session file name -> tasks holding the file open for append
    files,      \* session file name -> lines written, as <<task, role>>
    driver_pc,  \* where prompt() of lib.rs is: "load", "start", "await_eval", "monitor"
    eval_done,  \* the task spawned at lib.rs:70 has run to its end
    proc,       \* "running" or "exited"
    exit_code,  \* the process exit status, -1 while running
    stderr,     \* what the driver printed to standard error
    tail        \* watch::monitor on one session file, and that file

\* What no step of the evaluator or of the driver writes.
fixed == <<source, fn_in, fn_out, tail>>

vars == <<source, fn_in, fn_out, program, watch, tasks, writers, files, driver_pc, eval_done, proc,
          exit_code, stderr, tail>>

\* watch.rs:9-69, the state of monitor(path) and of the file at `path`:
\* `pc` is where monitor is, `exists` and `file` are the file and its lines,
\* `writer` is the task that writes the file (completion.rs), `lines` the
\* lines the watcher closure retains (watch.rs:30), `events` the modify
\* events not yet delivered, `chan` the mpsc channel, `sent` the number of
\* blocking_send calls, `stdout` the lines printed, `forwarded` what each
\* delivered event found and took, `rewritten` whether the file was
\* rewritten with fewer lines since monitor read it.
Monitor(pc, exists, file) ==
    [pc |-> pc, exists |-> exists, file |-> file, writer |-> "idle",
     lines |-> <<>>, events |-> 0, chan |-> <<>>, sent |-> 0, stdout |-> <<>>,
     forwarded |-> <<>>, rewritten |-> FALSE]

\* No file is tailed.
NoTail == Monitor("none", FALSE, <<>>)

Names == {program[i].name : i \in 1..Len(program)}

\* A task: `prompt` indexes program (0 before eval has found main), `parent`
\* and `call` name the task and the statement that spawned it; `command` is
\* the ChatCommand the task runs (NoCommand before eval built it); `requests`
\* counts the calls of ChatCommand::run (eval.rs:96), `stmtResults` holds what
\* each finished statement evaluation returned to evaluate_prompt, `cmds` the
\* shell commands the invocation ran.
NewTask(prompt, parent, call, has_append, append, prefix_user, pc) ==
    [prompt |-> prompt, parent |-> parent, call |-> call,
     has_append |-> has_append, append |-> append, prefix_user |-> prefix_user,
     command |-> NoCommand, pc |-> pc, chat |-> "", requests |-> 0, idx |-> 0, vars |-> EvaluateVars(<<>>, <<>>),
     handles |-> <<>>, case |-> 0, result |-> NoResult,
     stmtResults |-> <<>>, cmds |-> <<>>]

\* Nothing is parsed and no task is spawned.
NotLoaded ==
    /\ program = <<>>
    /\ tasks = <<>>
    /\ writers = <<>>
    /\ files = <<>>
    /\ eval_done = FALSE
    /\ exit_code = -1
    /\ stderr = <<>>

\* lib.rs:57-58, the prompt file is read; `watch` is the --watch argument.
Init ==
    /\ source \in Sources
    /\ watch \in {"none", "valid", "invalid"}
    /\ fn_in = <<>>
    /\ fn_out = NoResult
    /\ NotLoaded
    /\ driver_pc = "load"
    /\ proc = "running"
    /\ tail = NoTail

\* --------------------------------------------------------------- helpers

\* eval.rs:64, the first prompt flagged is_main, 0 when there is none.
find_main(prog) ==
    IF \E i \in 1..Len(prog) : prog[i].is_main
    THEN CHOOSE i \in 1..Len(prog) :
            prog[i].is_main /\ \A j \in 1..(i - 1) : ~prog[j].is_main
    ELSE 0

\* Variant of find_prompt that resolves a name to the last prompt of that
\* name.
find_prompt_last(prog, name) ==
    IF \E i \in 1..Len(prog) : prog[i].name = name
    THEN CHOOSE i \in 1..Len(prog) :
            prog[i].name = name /\ \A j \in (i + 1)..Len(prog) : prog[j].name # name
    ELSE 0

\* eval.rs:238-239, the first prompt of that name, 0 when there is none.
find_prompt(prog, name) ==
    IF \E i \in 1..Len(prog) : prog[i].name = name
    THEN CHOOSE i \in 1..Len(prog) :
            prog[i].name = name /\ \A j \in 1..(i - 1) : prog[j].name # name
    ELSE 0

\* The prompt a task evaluates and the statement it is at.
PromptOf(t) == program[tasks[t].prompt]
StatementOf(t) == PromptOf(t).statements[tasks[t].idx]

\* Variant of Schedulable for a fan-out that awaits each branch before it starts
\* the next one: a branch runs only when the branches named before it are done.
Schedulable_in_sequence(t) ==
    /\ proc = "running"
    /\ \A a \in 1..(t - 1) :
        (/\ tasks[a].parent # 0
         /\ tasks[a].parent = tasks[t].parent
         /\ tasks[a].call = tasks[t].call) => tasks[a].pc = "Done"

\* tokio::spawn (lib.rs:70, eval.rs:246): every task is scheduled on its own,
\* whatever the other tasks do, as long as the process lives.
Schedulable(t) == proc = "running"

\* Variant of discard_result in which what a statement returned becomes the
\* AI text of the invocation.
discard_result_into_state(T, t, case, res) ==
    [T EXCEPT ![t].stmtResults =
                    Append(@, [stmt |-> T[t].idx, case |-> case, res |-> res]),
              ![t].idx = @ + 1,
              ![t].pc = "Statements",
              ![t].handles = <<>>,
              ![t].case = 0,
              ![t].vars.ai = IF res.tag = "Ok" THEN res.val ELSE @]

\* eval.rs:125 and 128, `let _ = ...`: what the statement evaluation returned
\* is dropped and the loop goes on to the next statement.
discard_result(T, t, case, res) ==
    [T EXCEPT ![t].stmtResults =
                    Append(@, [stmt |-> T[t].idx, case |-> case, res |-> res]),
              ![t].idx = @ + 1,
              ![t].pc = "Statements",
              ![t].handles = <<>>,
              ![t].case = 0]

\* Variant of finish for an evaluator that retries: an exchange that gave
\* CommandExited is issued once more before the invocation gives up.
finish_retry(T, t, res) ==
    IF res.err = "CommandExited" /\ T[t].requests < 2
    THEN [T EXCEPT ![t].pc = "Request"]
    ELSE [T EXCEPT ![t].pc = "Done", ![t].result = res]

\* The task ends with this result (a return, a `?`, or a panic).
finish(T, t, res) == [T EXCEPT ![t].pc = "Done", ![t].result = res]

\* Variant of evaluate_prompt_call for an evaluator that starts a prompt
\* once: a name whose prompt already has an invocation is resolved and
\* skipped, so a cycle of calls is cut where it closes.
evaluate_prompt_call_once(T, t, names, append, case) ==
    LET missing == {i \in 1..Len(names) : find_prompt(program, names[i]) = 0}
        n == IF missing = {} THEN Len(names) ELSE Min(missing) - 1
        fresh == SelectSeq([i \in 1..n |-> find_prompt(program, names[i])],
                           LAMBDA j : \A u \in 1..Len(T) : T[u].prompt # j)
        base == Len(T)
        spawned == [i \in 1..Len(fresh) |->
            [NewTask(fresh[i], t, T[t].idx, TRUE, append,
                     program[T[t].prompt].name, "Request")
             EXCEPT !.command = sub_command(program[fresh[i]],
                                            append, program[T[t].prompt].name)]]
        caller == IF missing = {}
                  THEN [T EXCEPT ![t].pc = "Join",
                                 ![t].handles = [i \in 1..Len(fresh) |-> base + i],
                                 ![t].case = case]
                  ELSE finish(T, t, Panic("eval.rs:241"))
    IN  caller \o spawned

\* eval.rs:228-269 up to the join: the names are resolved and spawned in
\* order; the first absent name panics at the unwrap of line 241, after the
\* tasks of the names before it were spawned.
evaluate_prompt_call(T, t, names, append, case) ==
    LET missing == {i \in 1..Len(names) : find_prompt(program, names[i]) = 0}
        n == IF missing = {} THEN Len(names) ELSE Min(missing) - 1
        base == Len(T)
        spawned == [i \in 1..n |->
            [NewTask(find_prompt(program, names[i]), t, T[t].idx, TRUE, append,
                     program[T[t].prompt].name, "Request")
             EXCEPT !.command = sub_command(program[find_prompt(program, names[i])],
                                            append, program[T[t].prompt].name)]]
        caller == IF missing = {}
                  THEN [T EXCEPT ![t].pc = "Join",
                                 ![t].handles = [i \in 1..n |-> base + i],
                                 ![t].case = case]
                  ELSE finish(T, t, Panic("eval.rs:241"))
    IN  caller \o spawned

\* eval.rs:309-311, the shell command `c` is run by task t with the process
\* evaluate_command built and leaves `output`; `err` is its stderr trimmed.
run_command(T, t, c, captures, output) ==
    LET p == command_process(T[t].vars, c, captures)
    IN  [T EXCEPT ![t].cmds = Append(@, [stmt |-> T[t].idx, cmd |-> c,
                                         env |-> p.env, args |-> p.args,
                                         stdout |-> output.stdout,
                                         err |-> trim(output.stderr)])]

\* Variant of pipe_step that pipes the AI text whatever variable is named.
pipe_step_always_ai(t, subject, names, case, captures, output) ==
    IF subject.kind = "Command"
    THEN LET r == evaluate_command(output)
             T == run_command(tasks, t, subject.text, captures, output)
         IN  IF r.tag = "Err"
             THEN discard_result(T, t, case, r)
             ELSE evaluate_prompt_call(T, t, names, r.val, case)
    ELSE IF subject.text \in {"AI", "USER"}
         THEN evaluate_prompt_call(tasks, t, names, tasks[t].vars.ai, case)
         ELSE discard_result(tasks, t, case,
                             Err("UndeclaredVariable", <<subject.text>>))

\* Variant of pipe_step that starts the prompts called before it looks at
\* what the command subject gave: a failed command leaves them running with
\* nothing appended.
pipe_step_spawn_first(t, subject, names, case, captures, output) ==
    IF subject.kind = "Command"
    THEN LET r == evaluate_command(output)
             T == run_command(tasks, t, subject.text, captures, output)
             p == command_process(tasks[t].vars, subject.text, captures)
         IN  IF p.panic # "" THEN finish(tasks, t, Panic(p.panic))
             ELSE IF r.tag = "Err"
             THEN discard_result(evaluate_prompt_call(T, t, names, <<>>, case), t, case, r)
             ELSE evaluate_prompt_call(T, t, names, r.val, case)
    ELSE IF subject.text = "AI"
         THEN evaluate_prompt_call(tasks, t, names, tasks[t].vars.ai, case)
         ELSE IF subject.text = "USER"
              THEN evaluate_prompt_call(tasks, t, names, tasks[t].vars.user, case)
              ELSE discard_result(tasks, t, case,
                                  Err("UndeclaredVariable", <<subject.text>>))

\* eval.rs:200-226 up to the join, for a statement or a match action.
pipe_step(t, subject, names, case, captures, output) ==
    IF subject.kind = "Command"
    THEN LET r == evaluate_command(output)
             T == run_command(tasks, t, subject.text, captures, output)
             p == command_process(tasks[t].vars, subject.text, captures)
         IN  IF p.panic # "" THEN finish(tasks, t, Panic(p.panic))
             ELSE IF r.tag = "Err"
             THEN discard_result(T, t, case, r)
             ELSE evaluate_prompt_call(T, t, names, r.val, case)
    ELSE IF subject.text = "AI"
         THEN evaluate_prompt_call(tasks, t, names, tasks[t].vars.ai, case)
         ELSE IF subject.text = "USER"
              THEN evaluate_prompt_call(tasks, t, names, tasks[t].vars.user, case)
              ELSE discard_result(tasks, t, case,
                                  Err("UndeclaredVariable", <<subject.text>>))

\* Variant of aggregate that reports success as soon as one branch succeeded.
aggregate_any_ok(results) ==
    IF \E i \in 1..Len(results) : results[i].tag = "Ok"
    THEN Ok(<<>>)
    ELSE IF \E i \in 1..Len(results) : results[i].tag = "Panic"
         THEN Err("JoinError", <<>>)
         ELSE results[1]

\* Variant of aggregate that reports a logical failure of a branch before a
\* join failure.
aggregate_errors_first(results) ==
    IF \E i \in 1..Len(results) : results[i].tag = "Err"
    THEN results[Min({i \in 1..Len(results) : results[i].tag = "Err"})]
    ELSE IF \E i \in 1..Len(results) : results[i].tag = "Panic"
         THEN Err("JoinError", <<>>)
         ELSE Ok(<<>>)

\* eval.rs:219-223 (and 189-193): the join results collected, a JoinError
\* first, then the first EvaluateError in the order of the names.
aggregate(results) ==
    IF \E i \in 1..Len(results) : results[i].tag = "Panic"
    THEN Err("JoinError", <<>>)
    ELSE IF \E i \in 1..Len(results) : results[i].tag = "Err"
         THEN results[Min({i \in 1..Len(results) : results[i].tag = "Err"})]
         ELSE Ok(<<>>)

\* Variant of join_ready that resolves at the first failed branch, as a join
\* that cancels the siblings would.
join_ready_on_first_failure(t) ==
    \/ \A i \in 1..Len(tasks[t].handles) : tasks[tasks[t].handles[i]].pc = "Done"
    \/ \E i \in 1..Len(tasks[t].handles) :
        /\ tasks[tasks[t].handles[i]].pc = "Done"
        /\ tasks[tasks[t].handles[i]].result.tag # "Ok"

\* futures::future::join_all (eval.rs:268): ready when every handle is.
join_ready(t) ==
    \A i \in 1..Len(tasks[t].handles) : tasks[tasks[t].handles[i]].pc = "Done"

\* --------------------------------------------------------------- actions

\* lib.rs:60-78: the source is parsed and both Results are unwrapped with
\* expect, which panics the main task and ends the process with status 101
\* (so does a panic inside the parser); after a complete parse the sessions
\* directory is made and the evaluator task is spawned.
load ==
    /\ proc = "running"
    /\ driver_pc = "load"
    /\ LET r == parsed[source]
           names == {r.val[i].name : i \in 1..Len(r.val)}
       IN  IF r.tag = "Ok"
           THEN /\ program' = r.val
                /\ tasks' = << NewTask(0, 0, 0, FALSE, <<>>, "", "Eval") >>
                /\ writers' = [n \in names |-> {}]
                /\ files' = [n \in names |-> <<>>]
                /\ driver_pc' = "start"
                /\ UNCHANGED <<proc, exit_code, stderr>>
           ELSE /\ proc' = "exited"
                /\ exit_code' = 101
                /\ stderr' = Append(stderr, "panicked")
                /\ driver_pc' = "panicked"
                /\ UNCHANGED <<program, tasks, writers, files>>
    /\ UNCHANGED <<fixed, watch, eval_done>>

\* eval.rs:57-80, Evaluate::eval up to the call of evaluate_prompt: the main
\* prompt is looked up and unwrapped.
eval ==
    /\ Schedulable(1)
    /\ Len(tasks) >= 1
    /\ tasks[1].pc = "Eval"
    /\ LET main == find_main(program)
       IN  tasks' = IF main = 0
                    THEN finish(tasks, 1, Panic("eval.rs:64"))
                    ELSE [tasks EXCEPT ![1].pc = "Request", ![1].prompt = main,
                                       ![1].prefix_user = "USER",
                                       ![1].command = main_command(program[main])]
    /\ UNCHANGED <<fixed, program, watch, writers, files, driver_pc, eval_done, proc,
                   exit_code, stderr>>

\* chat.rs:30-44, the start of ChatCommand::run: the session file of the
\* prompt's name is opened for append (completion.rs load_session_file) and,
\* unless the AI responds first, the next user line is written to it: the
\* appended text, or a line read from the operator, who may end the input.
chat_begin(t) ==
    /\ Schedulable(t)
    /\ tasks[t].pc = "Request"
    /\ LET name == PromptOf(t).name
           ai_responds_first == ~tasks[t].has_append /\ PromptOf(t).eager
       IN  /\ writers' = [writers EXCEPT ![name] = @ \cup {t}]
           /\ \E typed \in BOOLEAN :
                /\ tasks[t].has_append \/ ai_responds_first => typed
                /\ tasks' = [tasks EXCEPT ![t].pc = "Exchange",
                                          ![t].requests = @ + 1,
                                          ![t].chat = IF typed THEN "sent" ELSE "eof"]
                /\ files' = IF typed /\ ~ai_responds_first
                            THEN [files EXCEPT ![name] = Append(@, <<t, "User">>)]
                            ELSE files
    /\ UNCHANGED <<fixed, program, watch, driver_pc, eval_done, proc, exit_code, stderr>>

\* eval.rs:96-120 with chat.rs:66-110: the exchange ends, the reply is written
\* to the session file and the file is closed; evaluate_prompt unwraps the
\* result, returns CommandExited on an empty list and extracts the state.
chat_end(t) ==
    /\ Schedulable(t)
    /\ tasks[t].pc = "Exchange"
    /\ \E r \in ChatResults :
        /\ tasks[t].chat = "eof" => (r.ok /\ r.msgs = <<>>)
        /\ LET name == PromptOf(t).name
               ai == find_last(r.msgs, "Ai")
           IN  /\ writers' = [writers EXCEPT ![name] = @ \ {t}]
               /\ files' = IF r.ok /\ ai # 0
                           THEN [files EXCEPT ![name] = Append(@, <<t, "Ai">>)]
                           ELSE files
               /\ tasks' =
                    IF ~r.ok THEN finish(tasks, t, Panic("eval.rs:96"))
                    ELSE IF Len(r.msgs) = 0
                    THEN finish(tasks, t, Err("CommandExited", <<>>))
                    ELSE IF ai = 0 THEN finish(tasks, t, Panic("eval.rs:111"))
                    ELSE [tasks EXCEPT
                            ![t].pc = "Statements",
                            ![t].idx = 1,
                            ![t].vars = evaluate_state(r.msgs)]
    /\ UNCHANGED <<fixed, program, watch, driver_pc, eval_done, proc, exit_code, stderr>>

AtStatement(t, kind) ==
    /\ Schedulable(t)
    /\ tasks[t].pc = "Statements"
    /\ tasks[t].idx <= Len(PromptOf(t).statements)
    /\ StatementOf(t).kind = kind

\* eval.rs:131-137, a bare command: its error ends the invocation (`?`).
evaluate_command_statement(t) ==
    /\ AtStatement(t, "Command")
    /\ \E output \in ProcessOutputs :
        LET r == evaluate_command(output)
            T == run_command(tasks, t, StatementOf(t).subject.text, NoCaptures, output)
        IN  tasks' = IF r.tag = "Err" THEN finish(T, t, r)
                     ELSE discard_result(T, t, 0, r)
    /\ UNCHANGED <<fixed, program, watch, writers, files, driver_pc, eval_done, proc,
                   exit_code, stderr>>

\* eval.rs:127-130 with 200-218, a pipe statement up to its join.
evaluate_pipe_statement(t) ==
    /\ AtStatement(t, "PipeStatement")
    /\ \E output \in ProcessOutputs :
        tasks' = pipe_step(t, StatementOf(t).subject, StatementOf(t).names, 0,
                           NoCaptures, output)
    /\ Len(tasks') <= MaxTasks
    /\ UNCHANGED <<fixed, program, watch, writers, files, driver_pc, eval_done, proc,
                   exit_code, stderr>>

\* eval.rs:124-126 with 144-198, a match statement up to the join of the
\* action of its first matching case.
evaluate_match_statement(t) ==
    /\ AtStatement(t, "MatchStatement")
    /\ LET st == StatementOf(t)
           test == IF st.variable = "AI" THEN tasks[t].vars.ai ELSE tasks[t].vars.user
           c == first_match(st.cases, test)
       IN  \E output \in ProcessOutputs :
            tasks' =
              IF st.variable \notin {"AI", "USER"}
              THEN finish(tasks, t, Panic("eval.rs:153"))
              ELSE IF c = 0 THEN discard_result(tasks, t, 0, Ok(<<>>))
              ELSE LET action == st.cases[c].action
                       regex == st.cases[c].regex
                       captures == SomeCaptures(regex, test)
                   IN  IF action.kind = "Pipe"
                       THEN pipe_step(t, action.subject, action.names, c,
                                      captures, output)
                       ELSE IF action.kind = "Command"
                       THEN LET r == evaluate_command(output)
                                T == run_command(tasks, t, action.subject.text,
                                                 captures, output)
                                p == command_process(tasks[t].vars,
                                                     action.subject.text, captures)
                            IN  IF p.panic # "" THEN finish(tasks, t, Panic(p.panic))
                                ELSE discard_result(T, t, c,
                                        IF r.tag = "Err" THEN r ELSE Ok(<<>>))
                       ELSE IF regex.groups < 1 \/ 1 \in regex.unset
                       THEN finish(tasks, t, Panic("eval.rs:188"))
                       ELSE evaluate_prompt_call(tasks, t, action.names,
                                                 capture_1(regex, test), c)
    /\ Len(tasks') <= MaxTasks
    /\ UNCHANGED <<fixed, program, watch, writers, files, driver_pc, eval_done, proc,
                   exit_code, stderr>>

\* eval.rs:218-223 and 188-193: join_all resolves, the results are collected
\* and returned to evaluate_prompt, which drops them.
join(t) ==
    /\ Schedulable(t)
    /\ tasks[t].pc = "Join"
    /\ join_ready(t)
    /\ LET results == [i \in 1..Len(tasks[t].handles) |->
                            tasks[tasks[t].handles[i]].result]
       IN  tasks' = discard_result(tasks, t, tasks[t].case, aggregate(results))
    /\ UNCHANGED <<fixed, program, watch, writers, files, driver_pc, eval_done, proc,
                   exit_code, stderr>>

\* eval.rs:141, the statements are exhausted.
return_ok(t) ==
    /\ Schedulable(t)
    /\ tasks[t].pc = "Statements"
    /\ tasks[t].idx > Len(PromptOf(t).statements)
    /\ tasks' = finish(tasks, t, Ok(<<>>))
    /\ UNCHANGED <<fixed, program, watch, writers, files, driver_pc, eval_done, proc,
                   exit_code, stderr>>

\* lib.rs:70-78, the end of the spawned evaluator task: CommandExited exits
\* the process with status 0, any other error is printed to standard error.
eval_finish ==
    /\ proc = "running"
    /\ Len(tasks) >= 1
    /\ tasks[1].pc = "Done"
    /\ ~eval_done
    /\ eval_done' = TRUE
    /\ LET r == tasks[1].result
       IN  IF r.tag = "Err" /\ r.err = "CommandExited"
           THEN proc' = "exited" /\ exit_code' = 0 /\ stderr' = stderr
           ELSE /\ stderr' = IF r.tag = "Err" THEN Append(stderr, r.err) ELSE stderr
                /\ UNCHANGED <<proc, exit_code>>
    /\ UNCHANGED <<fixed, program, watch, tasks, writers, files, driver_pc>>

\* lib.rs:80-93, the foreground of prompt(): an unknown watch name ends the
\* process, a known one blocks in watch::monitor, none awaits the evaluator.
driver_watch ==
    /\ proc = "running"
    /\ driver_pc = "start"
    /\ IF watch = "invalid"
       THEN /\ stderr' = Append(stderr, "Invalid watch")
            /\ proc' = "exited" /\ exit_code' = 0
            /\ driver_pc' = "exit"
       ELSE /\ driver_pc' = IF watch = "valid" THEN "monitor" ELSE "await_eval"
            /\ UNCHANGED <<stderr, proc, exit_code>>
    /\ UNCHANGED <<fixed, program, watch, tasks, writers, files, eval_done>>

\* lib.rs:91-95, eval.await resolves and prompt() returns to main.
driver_return ==
    /\ proc = "running"
    /\ driver_pc = "await_eval"
    /\ eval_done
    /\ driver_pc' = "returned"
    /\ proc' = "exited"
    /\ exit_code' = 0
    /\ UNCHANGED <<fixed, program, watch, tasks, writers, files, eval_done, stderr>>

Next ==
    \/ load
    \/ eval
    \/ eval_finish
    \/ driver_watch
    \/ driver_return
    \/ \E t \in 1..Len(tasks) : chat_begin(t)
    \/ \E t \in 1..Len(tasks) : chat_end(t)
    \/ \E t \in 1..Len(tasks) : evaluate_command_statement(t)
    \/ \E t \in 1..Len(tasks) : evaluate_pipe_statement(t)
    \/ \E t \in 1..Len(tasks) : evaluate_match_statement(t)
    \/ \E t \in 1..Len(tasks) : join(t)
    \/ \E t \in 1..Len(tasks) : return_ok(t)

Spec == Init /\ [][Next]_vars

\* The run with its scheduling: the tokio runtime (multi-thread, lib.rs:70 and
\* eval.rs:246) polls every spawned task that can take a step, and the
\* Chat Service calls and shell commands they wait for return.
SpecLive == Spec /\ WF_vars(Next)

\* ------------------------------------------------- function specifications

\* The driver and the evaluator at rest, for the specifications that apply
\* one function of the program to every argument of a bounded set.
AtRest ==
    /\ source = SourceOf(<<>>)
    /\ watch = "none"
    /\ NotLoaded
    /\ driver_pc = "idle"
    /\ proc = "running"

\* The texts a regex literal is parsed from: parentheses and other characters.
LiteralTexts == UNION {[1..k -> {"(", ")", "a"}] : k \in 0..MaxLiteralLen}

InitRegex ==
    /\ fn_in \in LiteralTexts
    /\ fn_out = NoResult
    /\ tail = NoTail
    /\ AtRest

\* parser.rs:14-18, the regex rule is applied at the start of the text.
parse_regex ==
    /\ fn_out = NoResult
    /\ fn_out' = regex_rule(fn_in)
    /\ UNCHANGED <<source, fn_in, tail, program, watch, tasks, writers, files,
                   driver_pc, eval_done, proc, exit_code, stderr>>

NextRegex == parse_regex

SpecRegex == InitRegex /\ [][NextRegex]_vars

\* Bounds on what a shell command leaves: the length of each output stream
\* and the exit status.
MaxOutputLen == 3
MaxStatus == 1

\* Output streams: blanks and other characters.
OutputTexts == UNION {[1..k -> {" ", "x"}] : k \in 0..MaxOutputLen}

InitCommand ==
    /\ fn_in \in [status : 0..MaxStatus, stdout : OutputTexts, stderr : OutputTexts]
    /\ fn_out = NoResult
    /\ tail = NoTail
    /\ AtRest

\* eval.rs:309-316, process.output() has returned and is turned into the
\* result of evaluate_command.
process_output ==
    /\ fn_out = NoResult
    /\ fn_out' = evaluate_command(fn_in)
    /\ UNCHANGED <<source, fn_in, tail, program, watch, tasks, writers, files,
                   driver_pc, eval_done, proc, exit_code, stderr>>

NextCommand == process_output

SpecCommand == InitCommand /\ [][NextCommand]_vars

\* Bounds on the message lists the state is extracted from: the number of
\* messages and the length of a content.
MaxMessages == 2
MaxContentLen == 3

\* Message contents: words, colons and blanks.
Contents == UNION {[1..k -> {"x", ":", " "}] : k \in 0..MaxContentLen}
MessageLists ==
    UNION {[1..k -> [role : {"Ai", "User"}, content : Contents]] : k \in 1..MaxMessages}

InitState ==
    /\ fn_in \in MessageLists
    /\ fn_out = NoResult
    /\ tail = NoTail
    /\ AtRest

\* eval.rs:102-120, the state is extracted from a non-empty message list;
\* the unwrap of line 111 panics when no message has the AI role.
extract_state ==
    /\ fn_out = NoResult
    /\ fn_out' = IF find_last(fn_in, "Ai") = 0 THEN Panic("eval.rs:111")
                 ELSE Ok(evaluate_state(fn_in))
    /\ UNCHANGED <<source, fn_in, tail, program, watch, tasks, writers, files,
                   driver_pc, eval_done, proc, exit_code, stderr>>

NextState == extract_state

SpecState == InitState /\ [][NextState]_vars

\* The texts the action of a match case is parsed from.
ActionTexts == UNION {[1..k -> ActionTokens] : k \in 0..MaxActionLen}

InitAction ==
    /\ fn_in \in ActionTexts
    /\ fn_out = NoResult
    /\ tail = NoTail
    /\ AtRest

\* parser.rs:39-48, the action of a match case is parsed at the start of
\* the text; `next` is where the rule stopped.
parse_action ==
    /\ fn_out = NoResult
    /\ fn_out' = LET m == match_action(fn_in)
                 IN  IF m.ok THEN Ok([action |-> m.val, next |-> m.next])
                     ELSE Err("ParseError", <<>>)
    /\ UNCHANGED <<source, fn_in, tail, program, watch, tasks, writers, files,
                   driver_pc, eval_done, proc, exit_code, stderr>>

NextAction == parse_action

SpecAction == InitAction /\ [][NextAction]_vars

\* ------------------------------------------------------- history trimming

\* Bounds on the message lists that are trimmed: the messages after the
\* system message, the tokens of a message, and tokens_max.
MaxHistory == 3
MaxTokens == 3
MaxTokensMax == 12

\* chat.rs:265-271, a ChatMessage with the token count ChatMessage::new
\* gave it; the content is the line of the transcript it came from.
ChatMessage(role, content, tokens) == [role |-> role, content |-> content, tokens |-> tokens]

\* chat.rs:302, the sum of the token counts.
RECURSIVE token_length(_)
token_length(msgs) ==
    IF msgs = <<>> THEN 0 ELSE Head(msgs).tokens + token_length(Tail(msgs))

\* chat.rs:301, floor(tokens_max * tokens_balance), the balance in tenths.
upper_bound(options) == (options.tokens_max * options.tokens_balance) \div 10

\* Variant of keep_recent that passes over a message that does not fit and
\* goes on to the older ones.
RECURSIVE keep_recent_that_fit(_, _, _)
keep_recent_that_fit(msgs, i, remaining) ==
    IF i < 2 THEN <<>>
    ELSE IF msgs[i].tokens > remaining THEN keep_recent_that_fit(msgs, i - 1, remaining)
    ELSE Append(keep_recent_that_fit(msgs, i - 1, remaining - msgs[i].tokens), msgs[i])

\* chat.rs:313-321, the loop over self.iter().skip(1).rev() from message i
\* down: a message that fits is kept and paid for, the first that does not
\* ends the loop; the messages kept, in the order of the list.
RECURSIVE keep_recent(_, _, _)
keep_recent(msgs, i, remaining) ==
    IF i < 2 THEN <<>>
    ELSE IF msgs[i].tokens > remaining THEN <<>>
    ELSE Append(keep_recent(msgs, i - 1, remaining - msgs[i].tokens), msgs[i])

\* chat.rs:298-333 (openai/chat.rs:240-273 is the same), labotomize.
labotomize(msgs, options) ==
    IF token_length(msgs) > upper_bound(options)
    THEN IF options.system.tokens > upper_bound(options)
         THEN Err("ChatTranscriptionError", <<>>)
         ELSE Ok(<<options.system>> \o
                 keep_recent(msgs, Len(msgs), upper_bound(options) - options.system.tokens))
    ELSE Ok(msgs)

\* chat.rs:338-383, the lists try_from builds and trims: the system message
\* of the options first, then the messages of the transcript.
Histories ==
    UNION {[1..k -> [role : {"User"}, content : {0}, tokens : 1..MaxTokens]] : k \in 0..MaxHistory}
Numbered(msgs) == [i \in 1..Len(msgs) |-> [msgs[i] EXCEPT !.content = i]]

InitLabotomize ==
    /\ \E sys \in 1..MaxTokens : \E h \in Histories :
       \E tokens_max \in 0..MaxTokensMax : \E tokens_balance \in {0, 5, 9} :
            fn_in = [msgs |-> <<ChatMessage("System", 0, sys)>> \o Numbered(h),
                     options |-> [system |-> ChatMessage("System", 0, sys),
                                  tokens_max |-> tokens_max,
                                  tokens_balance |-> tokens_balance]]
    /\ fn_out = NoResult
    /\ tail = NoTail
    /\ AtRest

\* chat.rs:383, the list is trimmed.
trim_history ==
    /\ fn_out = NoResult
    /\ fn_out' = labotomize(fn_in.msgs, fn_in.options)
    /\ UNCHANGED <<source, fn_in, tail, program, watch, tasks, writers, files,
                   driver_pc, eval_done, proc, exit_code, stderr>>

NextLabotomize == trim_history

SpecLabotomize == InitLabotomize /\ [][NextLabotomize]_vars

\* ---------------------------------------------------------- session tail

\* Bounds of the session tail: the lines of the file, the modify events
\* waiting to be delivered, and the capacity of the channel (256 at
\* watch.rs:10).
MaxFileLines == 4
MaxEvents == 2
ChannelCapacity == 2

\* A session file is a sequence of lines: completion.rs:144-154 writes the
\* configuration and the divider line, completion.rs:241-257 one line per
\* message. "cfg" is a line of the configuration.
Divider == "<->"
HasDivider(content) == \E i \in 1..Len(content) : content[i] = Divider

\* The files monitor may find: written by load_session_file and write, or
\* by something else (empty, without a divider).
SessionFiles ==
    { <<>>, <<"a">>, <<"cfg", Divider>>, <<"cfg", Divider, "a">>,
      <<"cfg", Divider, "", "a">> }

\* str::trim_start on the text after the divider: the blank lines it opens
\* with go.
RECURSIVE skip_blank_lines(_)
skip_blank_lines(content) ==
    IF content # <<>> /\ Head(content) = "" THEN skip_blank_lines(Tail(content))
    ELSE content

\* Variant of transcript that prints the file from its first line, the
\* configuration and the divider with it.
transcript_whole_file(content) ==
    Flatten([i \in 1..Len(content) |-> <<content[i], "">>])

\* watch.rs:12-23, the transcript printed at the start: what follows the
\* first divider, trimmed at its start, every line followed by an empty
\* line (`format!("{line}\n\n")`); nothing without a divider.
transcript(content) ==
    IF ~HasDivider(content) THEN <<>>
    ELSE LET d == Min({i \in 1..Len(content) : content[i] = Divider})
             rest == skip_blank_lines(SubSeq(content, d + 1, Len(content)))
         IN  Flatten([i \in 1..Len(rest) |-> <<rest[i], "">>])

\* watch.rs:45, appended.join("\n") as the lines println! gives it: the
\* join of no line is the empty text, which prints as one empty line.
join_lines(appended) == IF appended = <<>> THEN <<"">> ELSE appended

InitTail ==
    /\ fn_in = <<>>
    /\ fn_out = NoResult
    /\ AtRest
    /\ \/ tail = Monitor("start", FALSE, <<>>)
       \/ \E f \in SessionFiles : tail = Monitor("start", TRUE, f)

\* Everything but the tail.
TailFrame ==
    UNCHANGED <<source, fn_in, fn_out, program, watch, tasks, writers, files,
                driver_pc, eval_done, proc, exit_code, stderr>>

\* The modify events a change of the file raises: none before the watcher
\* is subscribed (watch.rs:62).
Raised(n) == IF tail.pc = "recv" THEN tail.events + n ELSE tail.events

\* completion.rs:116-161, load_session_file: a file that exists must hold a
\* divider (the expect of line 131 panics), a missing one is created with
\* the configuration and the divider.
session_open ==
    /\ tail.writer = "idle"
    /\ Raised(1) <= MaxEvents
    /\ tail' = IF ~tail.exists
               THEN [tail EXCEPT !.writer = "open", !.exists = TRUE,
                                 !.file = <<"cfg", Divider>>,
                                 !.events = Raised(1)]
               ELSE IF HasDivider(tail.file)
               THEN [tail EXCEPT !.writer = "open"]
               ELSE [tail EXCEPT !.writer = "done"]
    /\ TailFrame

\* completion.rs:241-257, CompletionFile::write: writeln! appends one line;
\* the line and its newline are written apart, which raises one or two
\* modify events.
session_write ==
    /\ tail.writer = "open"
    /\ Len(tail.file) < MaxFileLines
    /\ \E line \in {"b", ""} : \E n \in 1..2 :
        /\ Raised(n) <= MaxEvents
        /\ tail' = [tail EXCEPT !.file = Append(@, line), !.events = Raised(n)]
    /\ TailFrame

\* The file is rewritten in place with fewer lines while it is tailed, as
\* the truncation of completion.rs:110 (OpenOptions truncate(true)) or an
\* editor does: some of its first lines stay. One rewrite in a run.
session_rewrite ==
    /\ tail.pc \in {"watcher", "recv"}
    /\ ~tail.rewritten
    /\ tail.file # <<>>
    /\ Raised(1) <= MaxEvents
    /\ \E k \in 0..(Len(tail.file) - 1) :
            tail' = [tail EXCEPT !.file = SubSeq(@, 1, k), !.events = Raised(1),
                                 !.rewritten = TRUE]
    /\ TailFrame

\* chat.rs, the end of ChatCommand::run: the writer is done with the file.
session_close ==
    /\ tail.writer = "open"
    /\ tail' = [tail EXCEPT !.writer = "done"]
    /\ TailFrame

\* watch.rs:10-30: the file is read (a missing file reads as empty), an
\* empty line and the transcript are printed, the lines are retained.
monitor_open ==
    /\ tail.pc = "start"
    /\ tail' = [tail EXCEPT !.pc = "watcher",
                            !.stdout = <<"">> \o transcript(tail.file),
                            !.lines = tail.file]
    /\ TailFrame

\* watch.rs:31-62: the watcher is made, the file is created if missing and
\* the path is watched; an error of the watcher is returned (`?`).
monitor_watch ==
    /\ tail.pc = "watcher"
    /\ \/ tail' = [tail EXCEPT !.pc = "recv", !.exists = TRUE]
       \/ \E created \in {tail.exists, TRUE} :
            tail' = [tail EXCEPT !.pc = "failed", !.exists = created]
    /\ TailFrame

\* Variant of watcher_event for a watcher that sends with try_send: when the
\* channel is full the batch is dropped, and its lines are retained all the
\* same.
watcher_event_try_send ==
    /\ tail.pc = "recv"
    /\ tail.events > 0
    /\ LET appended == SubSeq(tail.file, Len(tail.lines) + 1, Len(tail.file))
           full == Len(tail.chan) >= ChannelCapacity
       IN  tail' = [tail EXCEPT
                !.events = @ - 1,
                !.chan = IF full THEN @ ELSE Append(@, join_lines(appended)),
                !.sent = IF full THEN @ ELSE @ + 1,
                !.lines = @ \o appended,
                !.forwarded = Append(@, [seen |-> Len(tail.lines),
                                         file |-> tail.file,
                                         batch |-> appended])]
    /\ TailFrame

\* watch.rs:35-50, the watcher closure on a modify event: the file is read
\* again, the lines after the retained ones are joined and sent, blocking
\* while the channel is full, and are retained too.
watcher_event ==
    /\ tail.pc = "recv"
    /\ tail.events > 0
    /\ Len(tail.chan) < ChannelCapacity
    /\ LET appended == SubSeq(tail.file, Len(tail.lines) + 1, Len(tail.file))
       IN  tail' = [tail EXCEPT
                !.events = @ - 1,
                !.chan = Append(@, join_lines(appended)),
                !.sent = @ + 1,
                !.lines = @ \o appended,
                !.forwarded = Append(@, [seen |-> Len(tail.lines),
                                         file |-> tail.file,
                                         batch |-> appended])]
    /\ TailFrame

\* watch.rs:64-66, a text is received and printed. rx.recv() gives None, and
\* the loop ends, only when every Sender is dropped: the one Sender is owned
\* by the watcher closure, which `watcher` keeps alive until monitor
\* returns, so with an empty channel monitor waits.
monitor_recv ==
    /\ tail.pc = "recv"
    /\ tail.chan # <<>>
    /\ tail' = [tail EXCEPT !.chan = Tail(@), !.stdout = @ \o Head(tail.chan)]
    /\ TailFrame

NextTail ==
    \/ session_open
    \/ session_write
    \/ session_close
    \/ monitor_open
    \/ monitor_watch
    \/ watcher_event
    \/ monitor_recv

SpecTail == InitTail /\ [][NextTail]_vars

\* The tail of a file that may also be rewritten in place.
NextTailRewrite == NextTail \/ session_rewrite

SpecTailRewrite == InitTail /\ [][NextTailRewrite]_vars

\* The tail with its scheduling: monitor runs on the tokio runtime, the
\* watcher closure on the notify thread and the writer in a task of its own,
\* each keeps running while it has a step to take.
SpecTailLive ==
    /\ SpecTail
    /\ WF_vars(monitor_open) /\ WF_vars(monitor_watch) /\ WF_vars(monitor_recv)
    /\ WF_vars(watcher_event)
    /\ WF_vars(session_open) /\ WF_vars(session_close)

\* ---------------------------------------------------------- session file

\* Bounds on the texts of a session file: the characters of the
\* configuration and of the transcript.
MaxConfigLen == 2
MaxTranscriptLen == 3

\* A session text is a sequence of characters, the divider `<->` standing
\* as one of them; "\n" and " " are white space.
Whitespace == {" ", "\n"}

\* str::trim (completion.rs:135): the white space at both ends goes.
str_trim(text) ==
    LET solid == {i \in 1..Len(text) : text[i] \notin Whitespace}
    IN  IF solid = {} THEN <<>>
        ELSE SubSeq(text, Min(solid), CHOOSE i \in solid : \A j \in solid : j <= i)

\* serde_yaml::to_string (completion.rs:145): the document of a
\* configuration, ended by a newline.
to_yaml(config) == config \o <<"\n">>

\* serde_yaml::from_str (completion.rs:137): a whole document gives its
\* configuration back; of a document cut short the parser makes an error
\* (the expect of line 138 panics) or a configuration cut short.
from_yaml(text) ==
    IF text # <<>> /\ text[Len(text)] = "\n"
    THEN {Ok(SubSeq(text, 1, Len(text) - 1))}
    ELSE {Panic("completion.rs:138"), Ok(text)}

\* completion.rs:144-154 and 241-257: a new session file is the document of
\* the configuration, the divider and a newline (`writeln!(file, "{}<->")`),
\* and the transcript is written after it.
write_session(config, written) ==
    to_yaml(config) \o <<Divider, "\n">> \o written

\* completion.rs:128-138, load_session_file on a file that exists: the text
\* is cut at the first `<->`; the transcript is what follows the divider and
\* one more character, trimmed; the configuration is parsed from what
\* precedes it.
load_session(text) ==
    IF ~HasDivider(text) THEN {Panic("completion.rs:131")}
    ELSE LET divider_index == Min({i \in 1..Len(text) : text[i] = Divider})
         IN  IF divider_index + 1 > Len(text) THEN {Panic("completion.rs:134")}
             ELSE { IF c.tag = "Ok"
                    THEN Ok([config |-> c.val,
                             transcript |->
                                str_trim(SubSeq(text, divider_index + 2, Len(text)))])
                    ELSE c : c \in from_yaml(SubSeq(text, 1, divider_index - 1)) }

ConfigTexts == UNION {[1..k -> {"k", Divider}] : k \in 0..MaxConfigLen}
TranscriptTexts == UNION {[1..k -> {"t", "\n", Divider}] : k \in 0..MaxTranscriptLen}

InitSession ==
    /\ fn_in \in [config : ConfigTexts, transcript : TranscriptTexts]
    /\ fn_out = NoResult
    /\ tail = NoTail
    /\ AtRest

\* The session file of a configuration and a transcript is written and then
\* loaded again.
reload_session ==
    /\ fn_out = NoResult
    /\ fn_out' \in load_session(write_session(fn_in.config, fn_in.transcript))
    /\ UNCHANGED <<source, fn_in, tail, program, watch, tasks, writers, files,
                   driver_pc, eval_done, proc, exit_code, stderr>>

NextSession == reload_session

SpecSession == InitSession /\ [][NextSession]_vars

\* ---------------------------------------------------------------- claims

Tasks == 1..Len(tasks)

\* The sub-invocations task p spawned from its statement k.
ChildrenOf(p, k) == {c \in Tasks : tasks[c].parent = p /\ tasks[c].call = k}

\* Something of a statement after k was run by task p.
LaterStatementRan(p, k) ==
    \/ \E i \in 1..Len(tasks[p].stmtResults) : tasks[p].stmtResults[i].stmt > k
    \/ \E i \in 1..Len(tasks[p].cmds) : tasks[p].cmds[i].stmt > k
    \/ \E c \in Tasks : tasks[c].parent = p /\ tasks[c].call > k

\* C1: an EvaluateError raised by a statement of a prompt invocation aborts
\* the invocation: no later statement of the prompt runs and the invocation
\* returns that error.
C1_ErrorAbortsInvocation ==
    \A t \in Tasks : \A i \in 1..Len(tasks[t].stmtResults) :
        LET e == tasks[t].stmtResults[i]
        IN  e.res.tag = "Err" =>
                /\ ~LaterStatementRan(t, e.stmt)
                /\ tasks[t].pc = "Done" => tasks[t].result = e.res

\* C2: the caller of a PromptCall has the aggregate result of the call only
\* when every sub-invocation of the call has finished with a result of its
\* own; a failed branch leaves its siblings running.
C2_AggregateAfterAllBranches ==
    \A p \in Tasks : \A i \in 1..Len(tasks[p].stmtResults) :
        \A c \in ChildrenOf(p, tasks[p].stmtResults[i].stmt) :
            tasks[c].pc = "Done" /\ tasks[c].result.tag # "None"

\* C2 witness: a call of two prompts was joined with an error while the branch
\* that did not fail ran its statements to the end.
C2_Witness ==
    \E p \in Tasks : \E i \in 1..Len(tasks[p].stmtResults) :
        LET e == tasks[p].stmtResults[i]
        IN  /\ e.res.tag = "Err"
            /\ \E a, b \in ChildrenOf(p, e.stmt) :
                /\ a # b
                /\ tasks[a].result.tag = "Err"
                /\ tasks[b].result.tag = "Ok"
                /\ Len(tasks[b].cmds) > 0

\* The exchange of task c with the Chat Service is in its session file.
SideEffectsOf(c) ==
    LET lines == Range(files[program[tasks[c].prompt].name])
    IN  <<c, "User">> \in lines /\ <<c, "Ai">> \in lines

\* C3: when a call of two prompts is joined and one branch failed with an
\* EvaluateError while the other succeeded, the result of the call is that
\* failure and the exchange of the successful branch is in its session file.
C3_FailureReportedSiblingEffectsKept ==
    \A p \in Tasks : \A i \in 1..Len(tasks[p].stmtResults) :
        LET e == tasks[p].stmtResults[i]
        IN  \A a, b \in ChildrenOf(p, e.stmt) :
                (/\ Cardinality(ChildrenOf(p, e.stmt)) = 2
                 /\ tasks[a].result.tag = "Err"
                 /\ tasks[b].result.tag = "Ok")
                => (e.res = tasks[a].result /\ SideEffectsOf(b))

\* C3 witness: such a call has been joined, the failed branch named first.
C3_Witness ==
    \E p \in Tasks : \E i \in 1..Len(tasks[p].stmtResults) :
        LET e == tasks[p].stmtResults[i]
        IN  \E a, b \in ChildrenOf(p, e.stmt) :
                /\ Cardinality(ChildrenOf(p, e.stmt)) = 2
                /\ a < b
                /\ tasks[a].result = Err("CommandExited", <<>>)
                /\ tasks[b].result.tag = "Ok"
                /\ e.res = tasks[a].result

\* C4: once the evaluator has finished, a Chat Service call that returned the
\* empty list, in whatever invocation, has made eval return CommandExited and
\* the process exit with status 0.
C4_CommandExitedReachesDriver ==
    (eval_done /\ \E t \in Tasks : tasks[t].result = Err("CommandExited", <<>>))
    => (/\ tasks[1].result = Err("CommandExited", <<>>)
        /\ proc = "exited"
        /\ exit_code = 0)

\* C5: a session file never has two writers at a time.
C5_SingleWriterPerSessionFile ==
    \A n \in Names : Cardinality(writers[n]) <= 1

\* C6: a PromptCall naming an absent prompt gives its caller the error
\* MissingPrompt and does not panic the task.
C6_MissingPromptIsAnError ==
    \A t \in Tasks :
        (/\ tasks[t].prompt # 0
         /\ tasks[t].idx \in 1..Len(PromptOf(t).statements)
         /\ StatementOf(t).kind = "PipeStatement"
         /\ \E i \in 1..Len(StatementOf(t).names) :
                find_prompt(program, StatementOf(t).names[i]) = 0
         /\ tasks[t].pc = "Done")
        => tasks[t].result.tag # "Panic"

UndeclaredAt(t) ==
    /\ tasks[t].prompt # 0
    /\ tasks[t].idx \in 1..Len(PromptOf(t).statements)
    /\ \/ /\ StatementOf(t).kind = "MatchStatement"
          /\ StatementOf(t).variable \notin {"AI", "USER"}
       \/ /\ StatementOf(t).kind = "PipeStatement"
          /\ StatementOf(t).subject.kind = "Variable"
          /\ StatementOf(t).subject.text \notin {"AI", "USER"}

\* C7: a match statement or a pipe statement on a variable other than AI and
\* USER gives UndeclaredVariable and never panics the task.
C7_UndeclaredVariableIsAnError ==
    \A t \in Tasks :
        /\ (UndeclaredAt(t) /\ tasks[t].pc = "Done") => tasks[t].result.tag # "Panic"
        /\ \A i \in 1..Len(tasks[t].stmtResults) :
            LET e == tasks[t].stmtResults[i]
                st == PromptOf(t).statements[e.stmt]
            IN  (\/ st.kind = "MatchStatement" /\ st.variable \notin {"AI", "USER"}
                 \/ /\ st.kind = "PipeStatement"
                    /\ st.subject.kind = "Variable"
                    /\ st.subject.text \notin {"AI", "USER"})
                => e.res.err = "UndeclaredVariable"

\* Task c descends from the call of statement k of task p.
RECURSIVE DescendsFrom(_, _, _)
DescendsFrom(c, p, k) ==
    /\ c > p
    /\ tasks[c].parent # 0
    /\ \/ tasks[c].parent = p /\ tasks[c].call = k
       \/ DescendsFrom(tasks[c].parent, p, k)

\* C8: when an invocation has gone past its statement k, every sub-invocation
\* that statement fanned out to, directly or through further calls, has
\* finished.
C8_StatementsInSourceOrder ==
    \A p \in Tasks : \A c \in Tasks :
        \A k \in 1..(tasks[p].idx - 1) :
            DescendsFrom(c, p, k) => tasks[c].pc = "Done"

\* The shell commands and the prompts task t ran for its statement k.
CommandsRan(t, k) ==
    {tasks[t].cmds[i].cmd : i \in {j \in 1..Len(tasks[t].cmds) : tasks[t].cmds[j].stmt = k}}
PromptsCalled(t, k) == {program[tasks[c].prompt].name : c \in ChildrenOf(t, k)}

\* What the action of a match case may run.
CommandsOfAction(action) ==
    IF action.subject.kind = "Command" THEN {action.subject.text} ELSE {}

\* C9: of a match statement on AI or USER, only the action of the first case
\* (in declaration order) whose regex matches the text is executed, whatever
\* later cases match; when no case matches, no command is run and no prompt
\* is called.
C9_FirstMatchWins ==
    \A t \in Tasks :
        tasks[t].prompt # 0 =>
        \A k \in 1..Len(PromptOf(t).statements) :
            LET st == PromptOf(t).statements[k]
                text == IF st.variable = "AI" THEN tasks[t].vars.ai
                        ELSE tasks[t].vars.user
                matching == {c \in 1..Len(st.cases) : is_match(st.cases[c].regex, text)}
            IN  (st.kind = "MatchStatement" /\ st.variable \in {"AI", "USER"}) =>
                /\ matching = {} =>
                        CommandsRan(t, k) = {} /\ PromptsCalled(t, k) = {}
                /\ \A c \in matching :
                     (\A j \in matching : c <= j) =>
                        /\ CommandsRan(t, k) \subseteq CommandsOfAction(st.cases[c].action)
                        /\ PromptsCalled(t, k) \subseteq Range(st.cases[c].action.names)
                        /\ \A i \in 1..Len(tasks[t].stmtResults) :
                             LET e == tasks[t].stmtResults[i]
                             IN  e.stmt = k =>
                                    /\ e.case = c
                                    /\ CommandsRan(t, k) = CommandsOfAction(st.cases[c].action)
                                    /\ (e.res.err # "Command") =>
                                         PromptsCalled(t, k) = Range(st.cases[c].action.names)

\* C9 witness: a match statement has finished with the action of its first
\* case run, here a prompt call, while a later case matched the text as well.
C9_Witness ==
    \E t \in Tasks : \E i \in 1..Len(tasks[t].stmtResults) :
        LET e == tasks[t].stmtResults[i]
            st == PromptOf(t).statements[e.stmt]
        IN  /\ st.kind = "MatchStatement"
            /\ e.case = 1
            /\ PromptsCalled(t, e.stmt) # {}
            /\ \E j \in 2..Len(st.cases) : is_match(st.cases[j].regex, tasks[t].vars.ai)

\* C9 witness of the other case: a match statement has finished with no case
\* matching.
C9_WitnessNoMatch ==
    \E t \in Tasks : \E i \in 1..Len(tasks[t].stmtResults) :
        LET e == tasks[t].stmtResults[i]
            st == PromptOf(t).statements[e.stmt]
        IN  st.kind = "MatchStatement" /\ e.case = 0

\* Tasks a and b are branches of one PromptCall, a named before b.
Siblings(a, b) ==
    /\ a < b
    /\ tasks[a].parent # 0
    /\ tasks[a].parent = tasks[b].parent
    /\ tasks[a].call = tasks[b].call

\* C10: the branches of one PromptCall are scheduled concurrently: while the
\* process lives, a branch that is about to issue its Chat Service request,
\* or awaits the reply, can take that step whatever the state of the branches
\* named before or after it.
C10_BranchesRunConcurrently ==
    \A a \in Tasks : \A b \in Tasks :
        (Siblings(a, b) /\ proc = "running") =>
            /\ tasks[b].pc = "Request" => ENABLED chat_begin(b)
            /\ tasks[b].pc = "Exchange" => ENABLED chat_end(b)
            /\ tasks[a].pc = "Request" => ENABLED chat_begin(a)
            /\ tasks[a].pc = "Exchange" => ENABLED chat_end(a)

\* C10 witness: the later-named branch has had its reply and is at its
\* statements while the earlier-named branch has not issued its request.
C10_Witness ==
    \E a \in Tasks : \E b \in Tasks :
        /\ Siblings(a, b)
        /\ tasks[a].pc = "Request"
        /\ tasks[b].pc \in {"Statements", "Done"}

\* C10 witness of the other order: the earlier-named branch is at its
\* statements while the later-named one has not issued its request.
C10_WitnessOtherOrder ==
    \E a \in Tasks : \E b \in Tasks :
        /\ Siblings(a, b)
        /\ tasks[b].pc = "Request"
        /\ tasks[a].pc \in {"Statements", "Done"}

\* The statement indices of a log of task t are strictly increasing.
Increasing(log) == \A i, j \in 1..Len(log) : i < j => log[i].stmt < log[j].stmt

\* C11: an invocation calls the Chat Service at most once, and exactly once
\* before anything of its statements runs; no statement is evaluated twice,
\* no command of a statement is run twice and no prompt of a call is invoked
\* twice, whatever failed.
C11_OneRequestNoRetry ==
    \A t \in Tasks :
        /\ tasks[t].requests <= 1
        /\ tasks[t].pc \in {"Exchange", "Statements", "Join"} => tasks[t].requests = 1
        /\ (\/ tasks[t].stmtResults # <<>>
            \/ tasks[t].cmds # <<>>
            \/ \E c \in Tasks : tasks[c].parent = t)
           => (tasks[t].requests = 1 /\ tasks[t].pc \notin {"Request", "Exchange"})
        /\ Increasing(tasks[t].stmtResults)
        /\ Increasing(tasks[t].cmds)
        /\ \A a, b \in Tasks :
                (Siblings(a, b) /\ tasks[a].parent = t) => tasks[a].prompt # tasks[b].prompt

\* C11 witness: an invocation whose Chat Service call failed, and one whose
\* statement failed, have both ended with one request issued.
C11_Witness ==
    /\ \E t \in Tasks :
        /\ tasks[t].result \in {Err("CommandExited", <<>>), Panic("eval.rs:96")}
        /\ tasks[t].requests = 1
    /\ \E t \in Tasks :
        /\ tasks[t].pc = "Done"
        /\ \E i \in 1..Len(tasks[t].stmtResults) : tasks[t].stmtResults[i].res.tag = "Err"
        /\ tasks[t].requests = 1

\* The source does not parse completely: text outside the grammar, a YAML
\* header that does not decode, or a regex literal whose parentheses are not
\* balanced.
ParseFails ==
    \/ ~source.grammar_ok
    \/ ~source.yaml_ok
    \/ \E i \in 1..Len(source.literals) : ~regex_new(source.literals[i])

\* C12: for a source that does not parse completely the process stops at
\* load time: no Program is built, the evaluator task is never spawned (so
\* no Chat Service call is made and no shell command is run), no session
\* file is made or watched, and the only step taken ends the process.
C12_ParseFailureStopsBeforeEvaluation ==
    ParseFails =>
        /\ program = <<>>
        /\ tasks = <<>>
        /\ files = <<>> /\ writers = <<>>
        /\ ~eval_done
        /\ driver_pc \in {"load", "panicked"}
        /\ driver_pc = "panicked" => (proc = "exited" /\ exit_code # 0)

\* C12 witness: the load of a source with a regex literal missing its
\* closing parenthesis has ended the process.
C12_Witness ==
    /\ \E i \in 1..Len(source.literals) : ~regex_new(source.literals[i])
    /\ driver_pc = "panicked"
    /\ proc = "exited"

\* C12 witnesses of the other two failures.
C12_WitnessYaml == ~source.yaml_ok /\ proc = "exited"
C12_WitnessGrammar == ~source.grammar_ok /\ proc = "exited"

\* The position of the ")" that closes the group opened by the first
\* character of s, 0 when that group is never closed.
MatchingClose(s) ==
    LET closes == {i \in 1..Len(s) : s[i] = ")" /\ Depth(s, i) = 0}
    IN  IF closes = {} THEN 0 ELSE Min(closes)

\* C13: applied to a text that begins with "(" and whose parentheses are
\* balanced, the regex rule hands the regex engine exactly the text from the
\* leading "(" to the ")" that closes that group, whatever groups are nested
\* or follow one another inside it.
C13_RegexLiteralIsOuterGroup ==
    (/\ fn_out.tag # "None"
     /\ fn_in # <<>>
     /\ fn_in[1] = "("
     /\ Depth(fn_in, Len(fn_in)) = 0
     /\ \A i \in 1..Len(fn_in) : Depth(fn_in, i) >= 0)
    => fn_out = Ok(SubSeq(fn_in, 1, MatchingClose(fn_in)))

\* C14: a regex literal whose leading "(" is never closed is refused with a
\* parse error: the rule neither accepts another text in its place nor
\* panics.
C14_UnbalancedLiteralRejected ==
    (/\ fn_out.tag # "None"
     /\ fn_in # <<>>
     /\ fn_in[1] = "("
     /\ MatchingClose(fn_in) = 0)
    => fn_out = Err("ParseError", <<>>)

\* A text without the blanks around it: from its first to its last character
\* that is not a blank, empty when it has none.
Max(S) == CHOOSE x \in S : \A y \in S : x >= y
NonBlank(text) == {i \in 1..Len(text) : text[i] # " "}
Core(text) ==
    IF NonBlank(text) = {} THEN <<>>
    ELSE SubSeq(text, Min(NonBlank(text)), Max(NonBlank(text)))

\* C16: a finished shell command whose stderr holds anything but blanks
\* gives the error Command with that stderr text, trimmed, whatever its exit
\* status and stdout; one whose stderr is empty or blank gives success with
\* its trimmed stdout, whatever its exit status.
C16_StderrDecidesCommandResult ==
    fn_out.tag # "None" =>
        IF NonBlank(fn_in.stderr) # {}
        THEN fn_out = Err("Command", Core(fn_in.stderr))
        ELSE fn_out = Ok(Core(fn_in.stdout))

\* C16 witness: a command that exited with status 0 and wrote to stdout has
\* failed because of its stderr.
C16_Witness ==
    /\ fn_out.tag = "Err"
    /\ fn_in.status = 0
    /\ NonBlank(fn_in.stdout) # {}
    /\ Len(fn_in.stderr) > Len(fn_out.val)

\* C16 witness of the other case: a command that exited with a non-zero
\* status and wrote only blanks to stderr has succeeded with its stdout
\* trimmed on both sides.
C16_WitnessOk ==
    /\ fn_out.tag = "Ok"
    /\ fn_in.status # 0
    /\ fn_in.stderr # <<>>
    /\ fn_in.stdout = <<" ", "x", " ">>
    /\ fn_out.val = <<"x">>

\* At most one prompt of prog is flagged is_main, and the first one is when
\* there is a prompt.
MainIsFirst(prog) ==
    /\ Cardinality({i \in 1..Len(prog) : prog[i].is_main}) <= 1
    /\ Len(prog) >= 1 => prog[1].is_main

\* C15: every step leaves a Program in which at most one prompt is flagged
\* is_main, the first one when there is a prompt, and once the source is
\* loaded no step (a spawn that clones the evaluator included) changes the
\* Program.
C15_MainIsFirstProgramFixed ==
    [][/\ MainIsFirst(program')
       /\ driver_pc # "load" => program' = program]_vars

\* C15 witness: a program of several prompts has been cloned into the tasks
\* of a call of two prompts, and one of them has run to its end.
C15_Witness ==
    /\ Len(program) >= 2
    /\ MainIsFirst(program)
    /\ \E a, b \in Tasks : Siblings(a, b) /\ tasks[b].pc = "Done"

\* The text statement k of task t tests when it is a match statement, and the
\* case whose action it runs (0 when there is none).
TestedText(t, k) ==
    IF PromptOf(t).statements[k].variable = "AI" THEN tasks[t].vars.ai
    ELSE tasks[t].vars.user
CaseTaken(t, k) ==
    LET st == PromptOf(t).statements[k]
    IN  IF st.kind = "MatchStatement" /\ st.variable \in {"AI", "USER"}
        THEN first_match(st.cases, TestedText(t, k))
        ELSE 0

\* The pipe statement k of task t evaluates: the statement itself, or the
\* Pipe action of the case taken; its kind is "None" when there is no pipe.
PipeAt(t, k) ==
    LET st == PromptOf(t).statements[k]
        c == CaseTaken(t, k)
    IN  IF st.kind = "PipeStatement" THEN [subject |-> st.subject, names |-> st.names]
        ELSE IF c # 0 /\ st.cases[c].action.kind = "Pipe"
        THEN [subject |-> st.cases[c].action.subject, names |-> st.cases[c].action.names]
        ELSE [subject |-> NoSubject, names |-> <<>>]

\* The command task t ran for its statement k.
CommandOf(t, k) ==
    tasks[t].cmds[CHOOSE i \in 1..Len(tasks[t].cmds) : tasks[t].cmds[i].stmt = k]

\* C17: every prompt invoked by a pipe is given the same appended text: the
\* stdout of the command subject without the blanks around it, or the AI or
\* USER text of the invocation as it is; and once the call is joined every
\* prompt named in it was invoked.
C17_PipePassesOneText ==
    \A t \in Tasks : tasks[t].prompt # 0 =>
        \A k \in 1..Len(PromptOf(t).statements) :
            LET pipe == PipeAt(t, k)
            IN  pipe.subject.kind # "None" =>
                /\ \A c \in ChildrenOf(t, k) :
                    /\ tasks[c].has_append
                    /\ tasks[c].append =
                         IF pipe.subject.kind = "Command"
                         THEN Core(CommandOf(t, k).stdout)
                         ELSE IF pipe.subject.text = "AI" THEN tasks[t].vars.ai
                         ELSE tasks[t].vars.user
                /\ \A i \in 1..Len(tasks[t].stmtResults) :
                    LET e == tasks[t].stmtResults[i]
                    IN  (e.stmt = k /\ e.res.err \notin {"Command", "UndeclaredVariable"})
                        => PromptsCalled(t, k) = Range(pipe.names)

\* C17 witness: a pipe of the AI text has invoked two prompts, both with that
\* text.
C17_Witness ==
    \E a, b \in Tasks :
        /\ Siblings(a, b)
        /\ PipeAt(tasks[a].parent, tasks[a].call).subject = VariableSubject("AI")
        /\ tasks[a].append = tasks[b].append
        /\ tasks[a].append # <<>>
        /\ tasks[a].pc = "Done" /\ tasks[b].pc = "Done"

\* C17 witness of the command subject: the prompt was given the stdout of
\* the command without its trailing blank.
C17_WitnessCommand ==
    \E c \in Tasks :
        /\ tasks[c].parent # 0
        /\ PipeAt(tasks[c].parent, tasks[c].call).subject.kind = "Command"
        /\ CommandOf(tasks[c].parent, tasks[c].call).stdout = <<"out", " ">>
        /\ tasks[c].append = <<"out">>

\* Task t has evaluated its statement k up to the spawn of its call.
Evaluated(t, k) ==
    \/ tasks[t].idx > k
    \/ tasks[t].idx = k /\ tasks[t].pc \in {"Join", "Done"}

\* C18: when the case taken by a match statement has a PromptCall action,
\* every prompt named is invoked, with the text of capture group 1 of the
\* match appended where the match has one, and the task does not panic;
\* regexes without a group, or whose group 1 took no part, included.
C18_PromptCallAppendsGroupOne ==
    \A t \in Tasks : tasks[t].prompt # 0 =>
        \A k \in 1..Len(PromptOf(t).statements) :
            LET st == PromptOf(t).statements[k]
                c == CaseTaken(t, k)
            IN  (/\ c # 0
                 /\ st.cases[c].action.kind = "PromptCall"
                 /\ Evaluated(t, k))
                => /\ PromptsCalled(t, k) = Range(st.cases[c].action.names)
                   /\ tasks[t].result.tag # "Panic"
                   /\ \A ch \in ChildrenOf(t, k) :
                        (st.cases[c].regex.groups >= 1 /\ 1 \notin st.cases[c].regex.unset)
                        => tasks[ch].append = capture(st.cases[c].regex, TestedText(t, k), 1)

\* The command log entries of task t that come from the action of a match
\* case, and the regex of that case.
RegexOf(t, e) == PromptOf(t).statements[e.stmt].cases[CaseTaken(t, e.stmt)].regex
FromMatch(t, e) == PromptOf(t).statements[e.stmt].kind = "MatchStatement"

\* C19: every shell command that runs has AI and USER in its environment,
\* holding the texts of the invocation; run from a match, it has every named
\* group of the regex as well, under the group's name and holding the
\* group's capture, and run from a statement it has nothing else.
C19_CommandEnvironment ==
    \A t \in Tasks : \A i \in 1..Len(tasks[t].cmds) :
        LET e == tasks[t].cmds[i]
        IN  /\ {"AI", "USER"} \subseteq DOMAIN e.env
            /\ e.env["AI"] = tasks[t].vars.ai
            /\ e.env["USER"] = tasks[t].vars.user
            /\ IF FromMatch(t, e)
               THEN \A g \in 1..RegexOf(t, e).groups :
                        RegexOf(t, e).names[g] # "" =>
                            /\ RegexOf(t, e).names[g] \in DOMAIN e.env
                            /\ e.env[RegexOf(t, e).names[g]] =
                                    capture(RegexOf(t, e), TestedText(t, e.stmt), g)
               ELSE DOMAIN e.env = {"AI", "USER"}

\* C19 witness: a command has run from a match whose regex names a group
\* FOOBAR, with FOOBAR, AI and USER in its environment.
C19_Witness ==
    \E t \in Tasks : \E i \in 1..Len(tasks[t].cmds) :
        LET e == tasks[t].cmds[i]
        IN  /\ FromMatch(t, e)
            /\ DOMAIN e.env = {"AI", "USER", "FOOBAR"}
            /\ e.env["FOOBAR"] = <<"yes">>
            /\ e.env["AI"] = <<"yes">>

\* The environment variable of the positional group i.
MName(i) == <<"M0", "M1", "M2">>[i + 1]

\* C20: a command run from a match has each capture group i of the match in
\* its environment as M{i}, and is given the captures in no other way: sh
\* gets no argument besides `-c` and the command.
C20_PositionalCapturesAsEnv ==
    \A t \in Tasks : \A i \in 1..Len(tasks[t].cmds) :
        LET e == tasks[t].cmds[i]
        IN  FromMatch(t, e) =>
                /\ \A g \in 1..RegexOf(t, e).groups :
                        /\ MName(g) \in DOMAIN e.env
                        /\ e.env[MName(g)] = capture(RegexOf(t, e), TestedText(t, e.stmt), g)
                /\ Len(e.args) = 2

\* The text the call of statement k of task t appends: the text of its pipe,
\* or capture group 1 of the match for a PromptCall action.
AppendedAt(t, k) ==
    LET pipe == PipeAt(t, k)
        st == PromptOf(t).statements[k]
    IN  IF pipe.subject.kind = "Command" THEN Core(CommandOf(t, k).stdout)
        ELSE IF pipe.subject.kind = "Variable"
        THEN (IF pipe.subject.text = "AI" THEN tasks[t].vars.ai ELSE tasks[t].vars.user)
        ELSE capture(st.cases[CaseTaken(t, k)].regex, TestedText(t, k), 1)

\* keep-history h of the called prompt is the request's no_context, negated.
KeepsHistory(history, nc) ==
    \/ history = "None" /\ nc = "None"
    \/ history = "true" /\ nc = "false"
    \/ history = "false" /\ nc = "true"

\* C21: the request of every sub-invocation is made of the called prompt's
\* own name and options, the text of the caller's call as append, the name of
\* the calling prompt as user prefix, single-shot, quiet, not streamed, the
\* AI not answering first; nothing in it comes from the caller's request.
C21_SubInvocationRequest ==
    \A c \in Tasks : tasks[c].parent # 0 =>
        LET callee == program[tasks[c].prompt]
            caller == program[tasks[tasks[c].parent].prompt]
            cmd == tasks[c].command
        IN  /\ cmd.name = callee.name
            /\ cmd.prefix_ai = callee.name
            /\ KeepsHistory(callee.history, cmd.no_context)
            /\ cmd.system = callee.description
            /\ cmd.direction = callee.direction
            /\ cmd.append = [some |-> TRUE,
                             text |-> AppendedAt(tasks[c].parent, tasks[c].call)]
            /\ cmd.prefix_user = caller.name
            /\ cmd.once /\ cmd.quiet /\ ~cmd.stream /\ ~cmd.ai_responds_first

\* C21 witness: two sub-invocations of one call run with requests that
\* differ in every option, both unlike the caller's.
C21_Witness ==
    \E a, b \in Tasks :
        /\ Siblings(a, b)
        /\ tasks[a].command.system = "describe b"
        /\ tasks[a].command.no_context = "true"
        /\ tasks[b].command.system = "None"
        /\ tasks[b].command.no_context = "None"
        /\ tasks[tasks[a].parent].command.system = "describe a"
        /\ tasks[a].command.append.text = tasks[tasks[a].parent].vars.ai
        /\ tasks[a].pc = "Done" /\ tasks[b].pc = "Done"

\* A content opens with a role label: one word and a colon. Without the
\* label and the blanks after it:
Labelled(content) ==
    Len(content) >= 2 /\ content[1] \notin {" ", ":"} /\ content[2] = ":"
Unlabelled(content) ==
    LET rest == SubSeq(content, 3, Len(content))
    IN  IF ~Labelled(content) THEN content
        ELSE IF NonBlank(rest) = {} THEN <<>>
        ELSE SubSeq(rest, Min(NonBlank(rest)), Len(rest))

\* The content of the most recent message of a role.
Latest(msgs, role) ==
    msgs[Max({i \in 1..Len(msgs) : msgs[i].role = role})].content

\* C22: the AI text extracted from a message list is the content of its most
\* recent AI message, the USER text that of its most recent USER message,
\* each without its leading role label and otherwise as it is, colons
\* included.
C22_StateIsLatestContent ==
    fn_out.tag = "Ok" =>
        /\ fn_out.val.ai = Unlabelled(Latest(fn_in, "Ai"))
        /\ (\E i \in 1..Len(fn_in) : fn_in[i].role = "User")
           => fn_out.val.user = Unlabelled(Latest(fn_in, "User"))

\* The invocation has its state: the exchange is over and gave messages.
HasState(t) == tasks[t].pc \in {"Statements", "Join", "Done"} /\ tasks[t].idx >= 1

\* C23: once an invocation has its AI/USER state, no step of any task
\* changes it, whether a statement of the invocation, a sub-invocation or a
\* sibling branch takes the step, and every command the invocation has run
\* was given that AI and USER text.
C23_StateFixedStep ==
    \A t \in Tasks : HasState(t) =>
        /\ t \in 1..Len(tasks')
        /\ tasks'[t].vars = tasks[t].vars
        /\ \A i \in 1..Len(tasks'[t].cmds) :
                /\ tasks'[t].cmds[i].env["AI"] = tasks[t].vars.ai
                /\ tasks'[t].cmds[i].env["USER"] = tasks[t].vars.user
C23_InvocationStateIsFixed == [][C23_StateFixedStep]_vars

\* C23 witness: an invocation that has run a command and is past its first
\* statement has a finished sub-invocation whose own AI text is another.
C23_Witness ==
    \E t \in Tasks : \E ch \in Tasks :
        /\ HasState(t) /\ tasks[t].idx >= 2 /\ Len(tasks[t].cmds) >= 1
        /\ tasks[ch].parent = t /\ HasState(ch) /\ tasks[ch].pc = "Done"
        /\ tasks[ch].vars.ai # tasks[t].vars.ai
        /\ tasks[t].vars.user # <<>>

\* The sub-invocations of statement k of task t that panicked, and those
\* that returned an EvaluateError.
Panicked(t, k) == {ch \in ChildrenOf(t, k) : tasks[ch].result.tag = "Panic"}
Failed(t, k) == {ch \in ChildrenOf(t, k) : tasks[ch].result.tag = "Err"}

\* C24: when a sub-invocation of a prompt call panicked, what the call
\* returned to its caller is a JoinError, returned with every branch of the
\* call finished, whatever the sibling branches returned; the caller
\* went on to its next statement and the process did not die of the panic.
C24_PanicSurfacesAsJoinError ==
    \A t \in Tasks : \A i \in 1..Len(tasks[t].stmtResults) :
        LET e == tasks[t].stmtResults[i]
        IN  Panicked(t, e.stmt) # {} =>
                /\ e.res = Err("JoinError", <<>>)
                /\ \A ch \in ChildrenOf(t, e.stmt) : tasks[ch].pc = "Done"
                /\ tasks[t].idx > e.stmt
                /\ exit_code # 101

\* C24 witness: a call returned with a panicked branch and a sibling branch
\* that failed with an EvaluateError.
C24_Witness ==
    \E t \in Tasks : \E i \in 1..Len(tasks[t].stmtResults) :
        LET e == tasks[t].stmtResults[i]
        IN  Panicked(t, e.stmt) # {} /\ Failed(t, e.stmt) # {}

\* C25: when the process has ended after the evaluator returned (and not for
\* an invalid watch name), its status and standard error follow the evaluator's result: status 0 and nothing
\* printed for CommandExited, status 0 for a normal completion, the error on
\* standard error and a non-zero status for every other EvaluateError.
C25_TopLevelExitStatus ==
    (proc = "exited" /\ eval_done /\ driver_pc # "exit") =>
        LET r == tasks[1].result
        IN  IF r = Err("CommandExited", <<>>) THEN exit_code = 0 /\ stderr = <<>>
            ELSE IF r.tag = "Ok" THEN exit_code = 0
            ELSE IF r.tag = "Err" THEN r.err \in Range(stderr) /\ exit_code # 0
            ELSE TRUE

\* The modify events delivered so far, and those that found new lines.
Delivered == 1..Len(tail.forwarded)
WithNewLines == {i \in Delivered : tail.forwarded[i].batch # <<>>}

\* C26: what a modify event forwards is the lines of the file, as it is
\* then, beyond the number of lines observed before; no line index is
\* forwarded by two events; and only the events that found new lines sent
\* something to the channel.
C26_ForwardsOnlyNewLines ==
    /\ \A i \in Delivered :
            LET e == tail.forwarded[i]
            IN  e.batch = [k \in 1..Max({0, Len(e.file) - e.seen}) |-> e.file[e.seen + k]]
    /\ \A i \in Delivered : \A j \in Delivered :
            i < j => tail.forwarded[j].seen >=
                        tail.forwarded[i].seen + Len(tail.forwarded[i].batch)
    /\ tail.sent = Cardinality(WithNewLines)

\* C27: once the writer of the session file has finished, monitor
\* eventually ends: it returns, or it fails with the watcher's error.
C27_TailTerminates ==
    (tail.writer = "done") ~> (tail.pc \in {"returned", "failed"})

\* The lines monitor read when it opened the file, the lines of a content
\* after its divider line, the lines of a text that are not empty, and the
\* updates monitor has received from the channel.
Opened ==
    IF tail.forwarded = <<>> THEN tail.lines
    ELSE SubSeq(tail.lines, 1, tail.forwarded[1].seen)
AfterDivider(content) ==
    IF \A i \in 1..Len(content) : content[i] # "<->" THEN <<>>
    ELSE SubSeq(content,
                1 + CHOOSE i \in 1..Len(content) :
                        content[i] = "<->" /\ \A j \in 1..(i - 1) : content[j] # "<->",
                Len(content))
Solid(text) == SelectSeq(text, LAMBDA l : l # "")
Received ==
    Flatten([i \in 1..(tail.sent - Len(tail.chan)) |-> tail.forwarded[i].batch])

\* C28: before monitor has opened the file nothing is printed and no modify
\* event is taken; from then on what is printed is, empty lines apart, the
\* lines after the divider of the file as opened, once, followed by the
\* updates received; no event reaches the watcher before the baseline is
\* printed; a file without a divider, or a missing file, has no line after
\* a divider and so gives an empty baseline.
C28_BaselineOnceBeforeUpdates ==
    /\ tail.pc = "start" => tail.stdout = <<>>
    /\ tail.pc \in {"start", "watcher"} => tail.events = 0 /\ tail.sent = 0
    /\ tail.pc \in {"watcher", "recv", "failed"} =>
            Solid(tail.stdout) = Solid(AfterDivider(Opened)) \o Solid(Received)

\* C28 witness: monitor opened a file with a transcript after its divider
\* and has printed an update with a line in it after the baseline.
C28_Witness ==
    /\ tail.pc = "recv"
    /\ Solid(AfterDivider(Opened)) # <<>>
    /\ Solid(Received) # <<>>

\* C28 witness: monitor opened a missing file and is subscribed.
C28_WitnessMissing ==
    /\ tail.pc = "recv"
    /\ Opened = <<>>
    /\ tail.stdout = <<"">>

\* C29: once the driver has spawned the evaluator and taken its foreground
\* branch, the evaluator runs as a task and the driver is in the Session
\* Tail, in every run.
C29_DriverAlwaysTails ==
    driver_pc \notin {"load", "start", "panicked"} =>
        /\ Len(tasks) >= 1
        /\ driver_pc = "monitor"

\* C30: a session file written from a configuration and a transcript loads
\* as that configuration and that transcript, whatever the two are.
C30_SessionFileRoundTrip ==
    fn_out # NoResult =>
        fn_out = Ok([config |-> fn_in.config, transcript |-> fn_in.transcript])

\* A text from position p on is a list of names with commas between, and
\* the names of such a list.
NameList(s, p) ==
    /\ p <= Len(s)
    /\ (Len(s) - p) % 2 = 0
    /\ \A i \in p..Len(s) : s[i] = (IF (i - p) % 2 = 0 THEN "n" ELSE ",")
NamesFrom(s, p) == [i \in 1..((Len(s) - p) \div 2 + 1) |-> s[p + 2 * (i - 1)]]

\* C31: an action text that is a command, an arrow and a name list parses
\* whole as a Pipe action on that command with those names; a lone command
\* parses as a Command action; a name list parses whole as a PromptCall
\* action.
C31_ActionClassification ==
    fn_out # NoResult =>
        /\ (Len(fn_in) >= 3 /\ fn_in[1] = "cmd" /\ fn_in[2] = "->" /\ NameList(fn_in, 3))
            => fn_out = Ok([action |-> ActionPipe(CommandSubject("cmd"), NamesFrom(fn_in, 3)),
                            next |-> Len(fn_in) + 1])
        /\ fn_in = <<"cmd">>
            => fn_out = Ok([action |-> ActionCommand("cmd"), next |-> 2])
        /\ NameList(fn_in, 1)
            => fn_out = Ok([action |-> ActionPromptCall(NamesFrom(fn_in, 1)),
                            next |-> Len(fn_in) + 1])

\* C31 witness: a command piped to two names was parsed as a Pipe action.
C31_Witness ==
    /\ fn_in = <<"cmd", "->", "n", ",", "n">>
    /\ fn_out.tag = "Ok"
    /\ fn_out.val.action.kind = "Pipe"

\* The prompts of the program that an earlier prompt of the same name
\* comes before.
Shadowed == {i \in 1..Len(program) : \E j \in 1..(i - 1) : program[j].name = program[i].name}

\* C32: no invocation evaluates a prompt that an earlier prompt of the same
\* name comes before: a call by name resolves to the first prompt of the
\* name, and the request of the sub-invocation is the one of that prompt.
C32_DuplicateResolvesToFirst ==
    \A t \in Tasks :
        /\ tasks[t].prompt \notin Shadowed
        /\ tasks[t].parent # 0 =>
                \A i \in 1..Len(program) :
                    program[i].name = tasks[t].command.name => tasks[t].prompt <= i

\* C32 witness: a name that two prompts carry was called, and the command
\* of the first of them has run.
C32_Witness ==
    /\ Shadowed # {}
    /\ \E t \in Tasks :
        /\ tasks[t].parent # 0
        /\ \E i \in Shadowed : program[i].name = program[tasks[t].prompt].name
        /\ Len(tasks[t].cmds) >= 1

\* The tokens of a list of messages, the bound of the options, and the
\* suffixes of the messages after the first that fit in a budget.
RECURSIVE Tokens(_)
Tokens(msgs) == IF Len(msgs) = 0 THEN 0 ELSE msgs[1].tokens + Tokens(SubSeq(msgs, 2, Len(msgs)))
Bound == (fn_in.options.tokens_max * fn_in.options.tokens_balance) \div 10
FittingSuffixes(msgs, budget) ==
    {k \in 2..(Len(msgs) + 1) : Tokens(SubSeq(msgs, k, Len(msgs))) <= budget}

\* C33: a list within floor(tokens_max * tokens_balance) tokens is returned
\* as it is; a longer one gives an error when the system message alone is
\* over the bound, and otherwise the system message followed by the longest
\* suffix of the other messages that fits in what the system message leaves,
\* a list of no more tokens than the bound.
C33_LabotomizeKeepsLongestSuffix ==
    fn_out # NoResult =>
        LET msgs == fn_in.msgs
            sys == fn_in.options.system
        IN  IF Tokens(msgs) <= Bound THEN fn_out = Ok(msgs)
            ELSE IF sys.tokens > Bound THEN fn_out.tag = "Err"
            ELSE LET k == Min(FittingSuffixes(msgs, Bound - sys.tokens))
                 IN  /\ fn_out = Ok(<<sys>> \o SubSeq(msgs, k, Len(msgs)))
                     /\ Tokens(fn_out.val) <= Bound

\* C33 witness: a list over the bound was trimmed to the system message and
\* some, not all, of the other messages.
C33_Witness ==
    /\ fn_out.tag = "Ok"
    /\ Tokens(fn_in.msgs) > Bound
    /\ Len(fn_out.val) >= 2
    /\ Len(fn_out.val) < Len(fn_in.msgs)

\* C34: a pipe statement whose call names a prompt the program does not
\* have starts no sub-invocation: no task is spawned for it and no request
\* is issued for the names that do resolve.
C34_MissingNameStartsNothing ==
    \A t \in Tasks : tasks[t].prompt # 0 =>
        \A k \in 1..Len(PromptOf(t).statements) :
            LET st == PromptOf(t).statements[k]
            IN  (/\ st.kind = "PipeStatement"
                 /\ \E i \in 1..Len(st.names) : find_prompt(program, st.names[i]) = 0)
                => \A ch \in ChildrenOf(t, k) : tasks[ch].requests = 0 /\ tasks[ch].pc = "Request"

\* The names a prompt calls, in its pipe statements and in the actions of
\* its match cases, and the prompts of a list that a set of prompts reaches
\* in at most n calls.
NamesCalled(prompt) ==
    UNION {Range(prompt.statements[k].names) \cup
           UNION {Range(prompt.statements[k].cases[c].action.names) :
                    c \in 1..Len(prompt.statements[k].cases)} :
           k \in 1..Len(prompt.statements)}
Callees(prog, S) ==
    {j \in 1..Len(prog) : \E i \in S : prog[j].name \in NamesCalled(prog[i])}
RECURSIVE Reached(_, _, _)
Reached(prog, S, n) ==
    IF n = 0 THEN {} ELSE Callees(prog, S) \cup Reached(prog, Callees(prog, S), n - 1)
Acyclic(prog) == \A i \in 1..Len(prog) : i \notin Reached(prog, {i}, Len(prog))

\* A task has failed: its exchange or one of its commands did not give a
\* result to go on with.
SomeTaskFailed == \E t \in Tasks : tasks[t].result.tag \in {"Err", "Panic"}
EvalEnded == Len(tasks) >= 1 /\ tasks[1].pc = "Done"

\* C35: for a source whose call graph is acyclic the evaluation eventually
\* ends (or the process does), and no invocation has an ancestor that
\* evaluates the same prompt, so the invocations are finitely many; with the
\* cyclic animal-house program the evaluation ends only when some exchange
\* did not give a reply to pipe on.
C35_AcyclicTerminates ==
    /\ Acyclic(source.prompts) => <>(EvalEnded \/ proc = "exited")
    /\ [](Acyclic(program) =>
            \A t \in Tasks : \A u \in Tasks :
                (tasks[t].parent # 0 /\ DescendsFrom(t, u, tasks[u].idx))
                    => tasks[t].prompt # tasks[u].prompt)
    /\ []((program = ProgAnimalHouse /\ EvalEnded) => SomeTaskFailed)

\* C35 witness: the evaluation of an acyclic program with a nested call has
\* ended with every invocation finished and none failed.
C35_Witness ==
    /\ program = ProgFanout
    /\ EvalEnded
    /\ Len(tasks) >= 4
    /\ \A t \in Tasks : tasks[t].pc = "Done"
    /\ ~SomeTaskFailed

\* The batches of every delivered event, the texts sent for the events from
\* i on, and what monitor prints for the updates it has received.
Batches == Flatten([i \in Delivered |-> tail.forwarded[i].batch])
SentFrom(i) == [j \in 1..(Len(tail.forwarded) - i + 1) |->
                    join_lines(tail.forwarded[i + j - 1].batch)]
PrintedUpdates ==
    Flatten([i \in 1..(tail.sent - Len(tail.chan)) |-> join_lines(tail.forwarded[i].batch)])

\* C36: with a file that only grows, the lines forwarded are, once each and
\* in file order, the lines of the file after those monitor read at the
\* start, up to the last line that was there when an event was delivered;
\* every event sends its batch (the watcher waits while the channel is
\* full), the channel holds the batches not yet received in the order sent,
\* and what is printed after the baseline is the batches received, in
\* order.
C36_AppendedLinesPrintedOnce ==
    /\ Batches = SubSeq(tail.file, Len(Opened) + 1, Len(tail.lines))
    /\ \A i \in Delivered : Len(tail.lines) >= Len(tail.forwarded[i].file)
    /\ tail.sent = Len(tail.forwarded)
    /\ Len(tail.chan) <= ChannelCapacity
    /\ tail.chan = SentFrom(tail.sent - Len(tail.chan) + 1)
    /\ tail.pc \in {"watcher", "recv", "failed"} =>
            tail.stdout = <<"">> \o transcript(Opened) \o PrintedUpdates

\* C36 witness: the first event delivered found three lines or more, so one
\* of them was appended before the subscription; monitor has printed them,
\* and the watcher waits with an event to deliver while the channel is full.
C36_Witness ==
    /\ tail.pc = "recv"
    /\ Delivered # {}
    /\ Len(tail.forwarded[1].batch) >= 3
    /\ tail.sent - Len(tail.chan) >= 1
    /\ Len(tail.chan) = ChannelCapacity
    /\ tail.events > 0

\* The events that found the file with fewer lines than the watcher retains.
FoundShorter == {i \in Delivered : Len(tail.forwarded[i].file) < tail.forwarded[i].seen}

\* The count of observed lines: after every event it is the larger of the
\* count before and the line count of the file, each event starts from the
\* count the one before left, and what an event takes are lines at indexes
\* beyond the count.
CountIsMaximum ==
    /\ \A i \in Delivered :
            LET e == tail.forwarded[i]
            IN  /\ e.seen + Len(e.batch) = Max({e.seen, Len(e.file)})
                /\ \A k \in 1..Len(e.batch) : e.batch[k] = e.file[e.seen + k]
                /\ i > 1 => e.seen = tail.forwarded[i - 1].seen
                                        + Len(tail.forwarded[i - 1].batch)
    /\ tail.forwarded # <<>> =>
            Len(tail.lines) = tail.forwarded[Len(tail.forwarded)].seen
                                + Len(tail.forwarded[Len(tail.forwarded)].batch)

\* C37: the count of observed lines never decreases and is after each event
\* the maximum of its value before and the file's line count; an event that
\* finds the file rewritten with fewer lines takes no line and sends
\* nothing.
C37_ShorterFileForwardsNothing ==
    /\ CountIsMaximum
    /\ tail.sent <= Len(tail.forwarded) - Cardinality(FoundShorter)

\* The statements of task t that were a pipe with a command subject whose
\* command failed: its stderr, trimmed, is not empty.
FailedCommandPipes(t) ==
    {tasks[t].cmds[i].stmt : i \in
        {j \in 1..Len(tasks[t].cmds) :
            /\ PipeAt(t, tasks[t].cmds[j].stmt).subject.kind = "Command"
            /\ tasks[t].cmds[j].err # <<>>}}

\* C38: a pipe whose command subject failed was run, gave the Command error
\* and started no invocation, so no request was issued for it; and every
\* invocation a pipe with a command subject started follows a command that
\* did not fail.
C38_FailedSubjectSpawnsNothing ==
    \A t \in Tasks : tasks[t].prompt # 0 =>
        /\ \A k \in FailedCommandPipes(t) :
                /\ ChildrenOf(t, k) = {}
                /\ \E i \in 1..Len(tasks[t].stmtResults) :
                        /\ tasks[t].stmtResults[i].stmt = k
                        /\ tasks[t].stmtResults[i].res.tag = "Err"
                        /\ tasks[t].stmtResults[i].res.err = "Command"
        /\ \A k \in 1..Len(PromptOf(t).statements) :
                (ChildrenOf(t, k) # {} /\ PipeAt(t, k).subject.kind = "Command")
                    => /\ k \notin FailedCommandPipes(t)
                       /\ CommandsRan(t, k) = {PipeAt(t, k).subject.text}

\* C38 witness: an invocation whose pipe statement had a failing command
\* subject has ended, and the prompt the statement calls was never invoked
\* by it.
C38_Witness ==
    \E t \in Tasks :
        /\ tasks[t].prompt # 0
        /\ tasks[t].pc = "Done"
        /\ \E k \in FailedCommandPipes(t) :
                /\ PromptOf(t).statements[k].kind = "PipeStatement"
                /\ PromptOf(t).statements[k].names # <<>>
                /\ ChildrenOf(t, k) = {}

\* C39: state extraction gives a state for every non-empty message list; a
\* role without a message in the list, AI or USER, has the empty text.
C39_ExtractionNeverFails ==
    (fn_in # <<>> /\ fn_out # NoResult) =>
        /\ fn_out.tag = "Ok"
        /\ (\A i \in 1..Len(fn_in) : fn_in[i].role # "Ai") => fn_out.val.ai = <<>>
        /\ (\A i \in 1..Len(fn_in) : fn_in[i].role # "User") => fn_out.val.user = <<>>

\* C40: the evaluation of a program without prompts issues no request,
\* starts no invocation and does not panic: it ends with Ok or with an
\* error value.
C40_EmptyProgramReturns ==
    (source = SourceOf(ProgEmpty) /\ Len(tasks) >= 1) =>
        /\ Len(tasks) = 1
        /\ tasks[1].requests = 0
        /\ tasks[1].result.tag # "Panic"
        /\ eval_done => tasks[1].result.tag \in {"Ok", "Err"}

====
